---------------------------- MODULE Spec2Model ----------------------------
(***************************************************************************)
(* A model of nrrddate (src/nrrddate/nrrddate.py): the recurrence rule     *)
(* parser (Events.parse_rrule), the occurrence generator                   *)
(* (Events._calc_event_recurrences, on top of dateutil's rrule), the       *)
(* master view (Events._calc_master_view, Events.refresh), the search      *)
(* (Events.perform_search), the refreshes of the interactive shell         *)
(* (EventsShell.do_refresh, FSHandler.on_any_event) and the operations     *)
(* that write events (Events.new, Events.modify, Events.unset).            *)
(*                                                                         *)
(* Timestamps are minutes since 2024-01-01 00:00 local time, a Monday.     *)
(* Python values are tagged records, so that None, integers, strings,      *)
(* datetimes, lists and dicts keep Python's truthiness and can be compared *)
(* with each other: k is the type tag, n an integer or a timestamp, l the  *)
(* elements of a list or the tokens of a string, m the mapping of a dict.  *)
(* The text of a string is a sequence of tokens: words, decimal integer    *)
(* literals, datetime literals and the characters ; = , and blank.          *)
(***************************************************************************)
EXTENDS Integers, Sequences, FiniteSets, TLC

VARIABLES
    pc,               \* position of the operation being run
    recurrence_limit, \* Events.recurrence_limit
    first_weekday,    \* Events.first_weekday
    interactive,      \* Events.interactive
    now,              \* datetime.now(tz=self.ltz)
    rruleobj,         \* argument of _calc_event_recurrences
    dt_start,         \* argument of _calc_event_recurrences
    past,             \* argument of _calc_event_recurrences
    algorithmic,      \* list(rr_rrule(...)) inside _calc_event_recurrences
    recurrences,      \* value returned by _calc_event_recurrences
    expression,       \* argument of parse_rrule
    rrule,            \* value returned by parse_rrule
    raised,           \* the exception that left the running operation, or ""
    files,            \* the event files of data_dir: file name -> event dict
    events,           \* Events.events: uid -> event dict
    master_view,      \* Events.master_view
    crashed,          \* the process ended on an unhandled exception
    term,             \* argument of perform_search
    recur,            \* argument of perform_search
    this_events,      \* value returned by perform_search
    threads,          \* the threads of the shell: their position and locals
    observed,         \* the master view as a command last read it
    complete_view,    \* history: the result of the last completed rebuild
    default_duration, \* Events.default_duration
    edit,             \* history: the last of new, modify and unset
    deletions,        \* argument of _remove_items
    source,           \* argument of _remove_items
    returned          \* value returned by _remove_items

vars == <<pc, recurrence_limit, first_weekday, interactive, now, rruleobj,
          dt_start, past, algorithmic, recurrences, expression, rrule,
          raised, files, events, master_view, crashed, term, recur,
          this_events, threads, observed, complete_view, default_duration,
          edit, deletions, source, returned>>

searchVars == <<term, recur, this_events>>
shellVars == <<threads, observed, complete_view>>
editVars == <<default_duration, edit, deletions, source, returned>>

-----------------------------------------------------------------------------
(* Bounds of the model *)

MaxRecurrenceLimit == 3    \* recurrence_limit is configured in 1..MaxRecurrenceLimit
MaxCount == 3              \* count values are drawn from -1, 1..MaxCount
MaxPeriods == 14           \* periods of the frequency that rr_rrule examines

\* DEFAULT_DURATION (minutes)
DEFAULT_DURATION == 30

-----------------------------------------------------------------------------
(* Python values *)

None == [k |-> "none", n |-> 0, l |-> <<>>, m |-> <<>>]
PyInt(i) == [k |-> "int", n |-> i, l |-> <<>>, m |-> <<>>]
PyDt(t) == [k |-> "dt", n |-> t, l |-> <<>>, m |-> <<>>]
PyStr(toks) == [k |-> "str", n |-> 0, l |-> toks, m |-> <<>>]
PyList(elems) == [k |-> "list", n |-> 0, l |-> elems, m |-> <<>>]
PyDict(map) == [k |-> "dict", n |-> 0, l |-> <<>>, m |-> map]

\* tokens of a string
TW(w) == [k |-> "w", n |-> 0, w |-> w]      \* a word
TN(i) == [k |-> "n", n |-> i, w |-> ""]     \* the decimal text of integer i
TD(t) == [k |-> "d", n |-> t, w |-> ""]     \* an ISO datetime text for t
TP(c) == [k |-> "p", n |-> 0, w |-> c]      \* punctuation: ";", "=" or ","

Word(w) == PyStr(<<TW(w)>>)

\* Python's truth value of v
Truthy(v) ==
    CASE v.k = "none" -> FALSE
      [] v.k = "int" -> v.n # 0
      [] v.k = "dt" -> TRUE
      [] v.k = "str" -> v.l # <<>>
      [] v.k = "list" -> v.l # <<>>
      [] v.k = "dict" -> DOMAIN v.m # {}

\* dict.get(key), None when the key is absent
Get(d, key) == IF key \in DOMAIN d.m THEN d.m[key] ELSE None

IsStrictlyAscending(s) == \A i \in 1..(Len(s) - 1) : s[i] < s[i + 1]
IsAscending(s) == \A i \in 1..(Len(s) - 1) : s[i] <= s[i + 1]
Elems(s) == {s[i] : i \in 1..Len(s)}

\* list.sort() / sorted(): a stable insertion sort (an element goes before
\* the later elements that are equal to it)
RECURSIVE Insert(_, _)
Insert(s, x) ==
    IF s = <<>> THEN <<x>>
    ELSE IF x <= Head(s) THEN <<x>> \o s
    ELSE <<Head(s)>> \o Insert(Tail(s), x)

RECURSIVE Sorted(_)
Sorted(s) == IF s = <<>> THEN <<>> ELSE Insert(Sorted(Tail(s)), Head(s))

\* list.remove(x): removes the first element equal to x
RECURSIVE RemoveFirst(_, _)
RemoveFirst(s, x) ==
    IF s = <<>> THEN <<>>
    ELSE IF Head(s) = x THEN Tail(s)
    ELSE <<Head(s)>> \o RemoveFirst(Tail(s), x)

-----------------------------------------------------------------------------
(* The calendar: day d is the d-th day after 2024-01-01, year y is 2024+y *)

DayOf(t) == t \div 1440
HourOf(t) == (t % 1440) \div 60
MinuteOf(t) == t % 60
Weekday(d) == d % 7                \* 0 = Monday .. 6 = Sunday
IsLeap(y) == (2024 + y) % 4 = 0
YearLen(y) == IF IsLeap(y) THEN 366 ELSE 365
YearStartDay(y) == 365 * y + ((y + 3) \div 4)
YearOfDay(d) ==
    LET y0 == d \div 366
    IN  IF YearStartDay(y0 + 1) <= d THEN y0 + 1 ELSE y0
YearDay(d) == d - YearStartDay(YearOfDay(d))     \* 0-based day of the year
MonthStarts(y) ==
    IF IsLeap(y)
    THEN <<0, 31, 60, 91, 121, 152, 182, 213, 244, 274, 305, 335, 366>>
    ELSE <<0, 31, 59, 90, 120, 151, 181, 212, 243, 273, 304, 334, 365>>
MonthOf(d) ==
    LET ms == MonthStarts(YearOfDay(d))
        yd == YearDay(d)
    IN  CHOOSE mo \in 1..12 : ms[mo] <= yd /\ yd < ms[mo + 1]
MonthLen(y, mo) == MonthStarts(y)[mo + 1] - MonthStarts(y)[mo]
MonthStartDay(y, mo) == YearStartDay(y) + MonthStarts(y)[mo]
MDay(d) == d - MonthStartDay(YearOfDay(d), MonthOf(d)) + 1
NMDay(d) == MDay(d) - MonthLen(YearOfDay(d), MonthOf(d)) - 1

RECURSIVE GCD(_, _)
GCD(a, b) == IF b = 0 THEN a ELSE GCD(b, a % b)

\* dateutil _iterinfo.rebuild, wnomask: the days of year y (offsets from its
\* 1 January, up to 7 days into the next year) that lie in week number n
WnoMask(y, wkst, n) ==
    LET yearlen == YearLen(y)
        yearweekday == Weekday(YearStartDay(y))
        firstwkst == (7 - yearweekday + wkst) % 7
        no1wkst == IF firstwkst >= 4 THEN 0 ELSE firstwkst
        wyearlen == IF firstwkst >= 4
                    THEN yearlen + ((yearweekday - wkst) % 7)
                    ELSE yearlen - firstwkst
        numweeks == (wyearlen \div 7) + ((wyearlen % 7) \div 4)
        adj == IF no1wkst # firstwkst THEN 7 - firstwkst ELSE 0
        nn == IF n < 0 THEN n + numweeks + 1 ELSE n
        WeekRun(i) == {i + j : j \in {j \in 0..6 :
                         \A q \in 1..j : (yearweekday + i + q) % 7 # wkst}}
        thisWeek == IF 0 < nn /\ nn <= numweeks
                    THEN WeekRun(IF nn > 1 THEN no1wkst + (nn - 1) * 7 - adj
                                 ELSE no1wkst)
                    ELSE {}
        nextFirst == IF n = 1 /\ no1wkst + numweeks * 7 - adj < yearlen
                     THEN WeekRun(no1wkst + numweeks * 7 - adj)
                     ELSE {}
        lyearweekday == Weekday(YearStartDay(y - 1))
        lno1wkst == (7 - lyearweekday + wkst) % 7
        lnumweeks == IF n = -1 THEN -1
                     ELSE IF lno1wkst >= 4
                     THEN 52 + (((YearLen(y - 1)
                                  + ((lyearweekday - wkst) % 7)) % 7) \div 4)
                     ELSE 52 + (((yearlen - no1wkst) % 7) \div 4)
        lastOfLast == IF no1wkst # 0 /\ lnumweeks = n
                      THEN 0..(no1wkst - 1) ELSE {}
    IN  thisWeek \cup nextFirst \cup lastOfLast

-----------------------------------------------------------------------------
(* dateutil.rrule.rrule, as _calc_event_recurrences calls it.  freq is     *)
(* dateutil's constant: YEARLY = 0, MONTHLY = 1, WEEKLY = 2, DAILY = 3,    *)
(* HOURLY = 4, MINUTELY = 5.  A rule r is the record of the arguments.     *)

\* rrule.__init__: the by* rules that are not given come from dtstart
RRuleDefaults(r) ==
    LET noday == /\ r.byweekno.k = "none" /\ r.byyearday.k = "none"
                 /\ r.bymonthday.k = "none" /\ r.byweekday.k = "none"
        d0 == DayOf(r.dtstart)
    IN  [r EXCEPT
          !.bymonth = IF noday /\ r.freq = 0 /\ @.k = "none"
                      THEN PyInt(MonthOf(d0)) ELSE @,
          !.bymonthday = IF noday /\ r.freq \in {0, 1}
                         THEN PyInt(MDay(d0)) ELSE @,
          !.byweekday = IF noday /\ r.freq = 2
                        THEN PyInt(Weekday(d0)) ELSE @]

\* rrule.__init__: the arguments it rejects with ValueError (bysetpos out of
\* range; __construct_byset finding no hour or minute the interval can reach)
RRuleRejects(r) ==
    \/ r.bysetpos.k = "int"
       /\ (r.bysetpos.n = 0 \/ r.bysetpos.n < -366 \/ r.bysetpos.n > 366)
    \/ r.freq = 4 /\ r.byhour.k = "int"
       /\ GCD(r.interval, 24) # 1
       /\ (r.byhour.n - HourOf(r.dtstart)) % GCD(r.interval, 24) # 0
    \/ r.freq = 5 /\ r.byminute.k = "int"
       /\ GCD(r.interval, 60) # 1
       /\ (r.byminute.n - MinuteOf(r.dtstart)) % GCD(r.interval, 60) # 0

\* rrule._iter, the day filter: day d, seen from the period's year y whose
\* week-number mask is wmask
DayOK(r, y, d, wmask) ==
    LET i == d - YearStartDay(y)
    IN  /\ r.bymonth.k = "none" \/ MonthOf(d) = r.bymonth.n
        /\ r.byweekday.k = "none" \/ Weekday(d) = r.byweekday.n
        /\ \/ r.bymonthday.k = "none" \/ r.bymonthday.n = 0
           \/ MDay(d) = r.bymonthday.n \/ NMDay(d) = r.bymonthday.n
        /\ \/ r.byyearday.k = "none"
           \/ i < YearLen(y) /\ (i + 1 = r.byyearday.n
                                 \/ i - YearLen(y) = r.byyearday.n)
           \/ i >= YearLen(y) /\ (i + 1 - YearLen(y) = r.byyearday.n
                                  \/ i - YearLen(y) - YearLen(y + 1)
                                       = r.byyearday.n)
        /\ r.byweekno.k = "none" \/ i \in wmask

\* rrule._iter: the days of the k-th period (ydayset, mdayset, wdayset,
\* ddayset): its year, its first day and its number of days
PeriodDays(r, k) ==
    LET d0 == DayOf(r.dtstart)
        step == k * r.interval
    IN  CASE r.freq = 0 ->
               LET y == YearOfDay(d0) + step
               IN  [y |-> y, first |-> YearStartDay(y), n |-> YearLen(y)]
          [] r.freq = 1 ->
               LET mi == YearOfDay(d0) * 12 + MonthOf(d0) - 1 + step
               IN  [y |-> mi \div 12,
                    first |-> MonthStartDay(mi \div 12, (mi % 12) + 1),
                    n |-> MonthLen(mi \div 12, (mi % 12) + 1)]
          [] r.freq = 2 ->
               IF k = 0
               THEN [y |-> YearOfDay(d0), first |-> d0,
                     n |-> ((r.wkst - Weekday(d0) - 1) % 7) + 1]
               ELSE LET a == d0 - ((Weekday(d0) - r.wkst) % 7) + 7 * step
                    IN  [y |-> YearOfDay(a), first |-> a, n |-> 7]
          [] r.freq = 3 ->
               [y |-> YearOfDay(d0 + step), first |-> d0 + step, n |-> 1]
          [] r.freq = 4 ->
               LET d == ((r.dtstart \div 60) + step) \div 24
               IN  [y |-> YearOfDay(d), first |-> d, n |-> 1]
          [] r.freq = 5 ->
               LET d == (r.dtstart + step) \div 1440
               IN  [y |-> YearOfDay(d), first |-> d, n |-> 1]

\* rrule._iter: the time of day (in minutes) of the k-th period, or -1 when
\* byhour or byminute filters it out (timeset = ())
PeriodTime(r, k) ==
    LET step == k * r.interval
        hh == IF r.byhour.k = "none" THEN HourOf(r.dtstart) ELSE r.byhour.n
        mm == IF r.byminute.k = "none" THEN MinuteOf(r.dtstart)
              ELSE r.byminute.n
    IN  CASE r.freq \in 0..3 -> hh * 60 + mm
          [] r.freq = 4 ->
               LET h == ((r.dtstart \div 60) + step) % 24
               IN  IF r.byhour.k = "int" /\ h # r.byhour.n THEN -1
                   ELSE h * 60 + mm
          [] r.freq = 5 ->
               LET t == r.dtstart + step
               IN  IF \/ r.byhour.k = "int" /\ HourOf(t) # r.byhour.n
                      \/ r.byminute.k = "int" /\ MinuteOf(t) # r.byminute.n
                   THEN -1 ELSE t % 1440

\* rrule._iter: the days of the period pd that pass the day filter
PeriodFilter(r, pd, wmask) ==
    SelectSeq([i \in 1..pd.n |-> pd.first + i - 1],
              LAMBDA d : DayOK(r, pd.y, d, wmask))

\* rrule._iter: the week-number mask of the period's year
PeriodMask(r, pd) ==
    IF r.byweekno.k = "none" THEN {}
    ELSE WnoMask(pd.y, r.wkst, r.byweekno.n)

\* rrule._iter: the occurrences on the filtered days at time tm, all of them
\* or the one bysetpos selects
PeriodPick(r, tm, days) ==
    IF tm < 0 THEN <<>>
    ELSE IF r.bysetpos.k = "none"
    THEN [i \in 1..Len(days) |-> days[i] * 1440 + tm]
    ELSE IF r.bysetpos.n > 0 /\ r.bysetpos.n <= Len(days)
    THEN <<days[r.bysetpos.n] * 1440 + tm>>
    ELSE IF r.bysetpos.n < 0 /\ Len(days) + r.bysetpos.n + 1 >= 1
    THEN <<days[Len(days) + r.bysetpos.n + 1] * 1440 + tm>>
    ELSE <<>>

PeriodOf(r, pd, tm) ==
    PeriodPick(r, tm, PeriodFilter(r, pd, PeriodMask(r, pd)))

\* rrule._iter: the occurrences of the k-th period in ascending order, after
\* the day filter and bysetpos
PeriodSet(r, k) == PeriodOf(r, PeriodDays(r, k), PeriodTime(r, k))

\* rrule._iter: the candidates of one period in turn.  st.out are the
\* occurrences yielded so far, st.cnt what is left of count, st.stop is set
\* when the iteration returns (res > until, or count used up)
RECURSIVE RRuleTake(_, _, _, _)
RRuleTake(r, cand, i, st) ==
    IF i > Len(cand) THEN st
    ELSE IF r.until.k = "dt" /\ cand[i] > r.until.n
    THEN [st EXCEPT !.stop = TRUE]
    ELSE IF cand[i] >= r.dtstart
    THEN IF st.cnt - 1 < 0
         THEN [st EXCEPT !.stop = TRUE]
         ELSE RRuleTake(r, cand, i + 1,
                        [out |-> Append(st.out, cand[i]),
                         cnt |-> st.cnt - 1, stop |-> FALSE])
    ELSE RRuleTake(r, cand, i + 1, st)

\* rrule._iter: period after period, until it returns or MaxPeriods periods
\* were examined (dateutil goes on to the year 9999).  With count used up the
\* next candidate would end the iteration, so it ends here.
RECURSIVE RRuleIter(_, _, _)
RRuleIter(r, k, st) ==
    IF k >= MaxPeriods \/ st.stop \/ st.cnt <= 0 THEN st.out
    ELSE RRuleIter(r, k + 1, RRuleTake(r, PeriodSet(r, k), 1, st))

\* list(rr_rrule(freq, dtstart=..., ...)): exc is the exception raised, if
\* any, and l the list
rr_rrule(r) ==
    IF RRuleRejects(r) THEN [exc |-> "ValueError", l |-> <<>>]
    ELSE [exc |-> "",
          l |-> RRuleIter(RRuleDefaults(r), 0,
                          [out |-> <<>>, cnt |-> r.count, stop |-> FALSE])]

-----------------------------------------------------------------------------
(* Strings and datetimes *)

\* str.upper() and str.lower() of a word
UpperWord(w) ==
    CASE w = "yearly" -> "YEARLY" [] w = "monthly" -> "MONTHLY"
      [] w = "weekly" -> "WEEKLY" [] w = "daily" -> "DAILY"
      [] w = "hourly" -> "HOURLY" [] w = "minutely" -> "MINUTELY"
      [] w = "fortnightly" -> "FORTNIGHTLY"
      [] w = "su" -> "SU" [] w = "mo" -> "MO" [] w = "tu" -> "TU"
      [] w = "we" -> "WE" [] w = "th" -> "TH" [] w = "fr" -> "FR"
      [] w = "sa" -> "SA" [] w = "xx" -> "XX" [] w = "bogus" -> "BOGUS"
      [] w = "freq" -> "FREQ" [] w = "count" -> "COUNT"
      [] w = "byhour" -> "BYHOUR"
      [] OTHER -> w
LowerWord(w) ==
    CASE w = "YEARLY" -> "yearly" [] w = "MONTHLY" -> "monthly"
      [] w = "WEEKLY" -> "weekly" [] w = "DAILY" -> "daily"
      [] w = "HOURLY" -> "hourly" [] w = "MINUTELY" -> "minutely"
      [] w = "FORTNIGHTLY" -> "fortnightly"
      [] w = "SU" -> "su" [] w = "MO" -> "mo" [] w = "TU" -> "tu"
      [] w = "WE" -> "we" [] w = "TH" -> "th" [] w = "FR" -> "fr"
      [] w = "SA" -> "sa" [] w = "XX" -> "xx" [] w = "BOGUS" -> "bogus"
      [] w = "FREQ" -> "freq" [] w = "COUNT" -> "count"
      [] w = "BYHOUR" -> "byhour"
      [] w = "Bob" -> "bob" [] w = "Call" -> "call" [] w = "Work" -> "work"
      [] w = "Office" -> "office" [] w = "A1" -> "a1"
      [] w = "Beta" -> "beta" [] w = "LOCATION" -> "location"
      [] OTHER -> w
Upper(v) ==
    PyStr([i \in 1..Len(v.l) |->
             IF v.l[i].k = "w" THEN TW(UpperWord(v.l[i].w)) ELSE v.l[i]])
Lower(v) ==
    PyStr([i \in 1..Len(v.l) |->
             IF v.l[i].k = "w" THEN TW(LowerWord(v.l[i].w)) ELSE v.l[i]])

\* str.strip(): the text without the blanks at its ends
RECURSIVE StripLeft(_)
StripLeft(toks) ==
    IF toks # <<>> /\ Head(toks) = TP(" ") THEN StripLeft(Tail(toks))
    ELSE toks

RECURSIVE StripRight(_)
StripRight(toks) ==
    IF toks # <<>> /\ toks[Len(toks)] = TP(" ")
    THEN StripRight(SubSeq(toks, 1, Len(toks) - 1))
    ELSE toks

Strip(toks) == StripRight(StripLeft(toks))

\* _datetime_or_none: a datetime is moved to the local zone (the same
\* instant); a string is parsed by dateutil's parser, which here accepts
\* exactly the datetime literals (blanks around them are ignored); anything
\* else gives None
DatetimeOrNone(v) ==
    IF v.k = "dt" THEN PyDt(v.n)
    ELSE IF v.k = "str" /\ Len(Strip(v.l)) = 1 /\ Strip(v.l)[1].k = "d"
    THEN PyDt(Strip(v.l)[1].n)
    ELSE None

\* a list of datetimes, kept as their timestamps
PyDtList(ts) == [k |-> "list", n |-> 0, l |-> ts, m |-> <<>>]

-----------------------------------------------------------------------------
(* Events._calc_event_recurrences *)

\* frequencies.get(rr_freqstr): dateutil's constants
Frequencies(v) ==
    CASE v = Word("MINUTELY") -> PyInt(5) [] v = Word("HOURLY") -> PyInt(4)
      [] v = Word("DAILY") -> PyInt(3) [] v = Word("WEEKLY") -> PyInt(2)
      [] v = Word("MONTHLY") -> PyInt(1) [] v = Word("YEARLY") -> PyInt(0)
      [] OTHER -> None

\* weekdays.get(rr_byweekdaystr): dateutil's weekday objects MO = 0 .. SU = 6
Weekdays(v) ==
    CASE v = Word("MO") -> PyInt(0) [] v = Word("TU") -> PyInt(1)
      [] v = Word("WE") -> PyInt(2) [] v = Word("TH") -> PyInt(3)
      [] v = Word("FR") -> PyInt(4) [] v = Word("SA") -> PyInt(5)
      [] v = Word("SU") -> PyInt(6)
      [] OTHER -> None

\* the arguments of the rr_rrule call, with the limit off by one
RRuleArgs_LimitPlusOne(obj, start, limit, wkst) ==
    [freq |-> Frequencies(Upper(Get(obj, "freq"))).n,
     dtstart |-> start,
     interval |-> IF Truthy(Get(obj, "interval"))
                  THEN Get(obj, "interval").n ELSE 1,
     wkst |-> wkst,
     count |-> IF Truthy(Get(obj, "count")) THEN Get(obj, "count").n
               ELSE limit + 1,
     until |-> Get(obj, "until"),
     bysetpos |-> Get(obj, "bysetpos"),
     bymonth |-> Get(obj, "bymonth"),
     bymonthday |-> Get(obj, "bymonthday"),
     byyearday |-> Get(obj, "byyearday"),
     byweekno |-> Get(obj, "byweekno"),
     byweekday |-> IF Truthy(Get(obj, "byweekday"))
                   THEN Weekdays(Upper(Get(obj, "byweekday"))) ELSE None,
     byhour |-> Get(obj, "byhour"),
     byminute |-> Get(obj, "byminute")]

\* the arguments of the rr_rrule call, with until left out
RRuleArgs_NoUntil(obj, start, limit, wkst) ==
    [freq |-> Frequencies(Upper(Get(obj, "freq"))).n,
     dtstart |-> start,
     interval |-> IF Truthy(Get(obj, "interval"))
                  THEN Get(obj, "interval").n ELSE 1,
     wkst |-> wkst,
     count |-> IF Truthy(Get(obj, "count")) THEN Get(obj, "count").n
               ELSE limit,
     until |-> None,
     bysetpos |-> Get(obj, "bysetpos"),
     bymonth |-> Get(obj, "bymonth"),
     bymonthday |-> Get(obj, "bymonthday"),
     byyearday |-> Get(obj, "byyearday"),
     byweekno |-> Get(obj, "byweekno"),
     byweekday |-> IF Truthy(Get(obj, "byweekday"))
                   THEN Weekdays(Upper(Get(obj, "byweekday"))) ELSE None,
     byhour |-> Get(obj, "byhour"),
     byminute |-> Get(obj, "byminute")]

\* the arguments of the rr_rrule call
RRuleArgs(obj, start, limit, wkst) ==
    [freq |-> Frequencies(Upper(Get(obj, "freq"))).n,
     dtstart |-> start,
     interval |-> IF Truthy(Get(obj, "interval"))
                  THEN Get(obj, "interval").n ELSE 1,
     wkst |-> wkst,
     count |-> IF Truthy(Get(obj, "count")) THEN Get(obj, "count").n
               ELSE limit,
     until |-> Get(obj, "until"),
     bysetpos |-> Get(obj, "bysetpos"),
     bymonth |-> Get(obj, "bymonth"),
     bymonthday |-> Get(obj, "bymonthday"),
     byyearday |-> Get(obj, "byyearday"),
     byweekno |-> Get(obj, "byweekno"),
     byweekday |-> IF Truthy(Get(obj, "byweekday"))
                   THEN Weekdays(Upper(Get(obj, "byweekday"))) ELSE None,
     byhour |-> Get(obj, "byhour"),
     byminute |-> Get(obj, "byminute")]

\* "add any specifically defined recurrences"
RECURSIVE AddDates(_, _)
AddDates(all, entries) ==
    IF entries = <<>> THEN all
    ELSE LET new_dt == DatetimeOrNone(Head(entries))
         IN  AddDates(IF Truthy(new_dt) /\ new_dt.n \notin Elems(all)
                      THEN Append(all, new_dt.n) ELSE all,
                      Tail(entries))

\* "remove any specifically excluded recurences"
RECURSIVE RemoveExcepts(_, _)
RemoveExcepts(all, entries) ==
    IF entries = <<>> THEN all
    ELSE LET new_dt == DatetimeOrNone(Head(entries))
         IN  RemoveExcepts(IF Truthy(new_dt) /\ new_dt.n \in Elems(all)
                           THEN RemoveFirst(all, new_dt.n) ELSE all,
                           Tail(entries))

\* "add any specifically defined recurrences", when the rule has a date list
AddDatesOf(all, rr_date) ==
    IF Truthy(rr_date) THEN AddDates(all, rr_date.l) ELSE all

\* "remove any specifically excluded recurences", when the rule has an
\* except list
RemoveExceptsOf(all, rr_except) ==
    IF Truthy(rr_except) THEN RemoveExcepts(all, rr_except.l) ELSE all

\* past: the whole list; otherwise the entries that are not in the past
NotPast(all, incl_past, t) ==
    IF incl_past THEN all ELSE SelectSeq(all, LAMBDA entry : entry >= t)

\* _calc_event_recurrences after the rr_rrule call, whose outcome is rr
CalcAllRecurrences(rr, obj, incl_past, t_now) ==
    IF rr.exc # ""
    THEN [exc |-> rr.exc, ret |-> None, alg |-> <<>>]
    ELSE [exc |-> "",
          ret |-> PyDtList(NotPast(
                     Sorted(RemoveExceptsOf(AddDatesOf(rr.l, Get(obj, "date")),
                                            Get(obj, "except"))),
                     incl_past, t_now)),
          alg |-> rr.l]

\* the rr_freq that "if rr_freq:" tests
RuleFreq(obj) ==
    IF Truthy(Get(obj, "freq")) THEN Frequencies(Upper(Get(obj, "freq")))
    ELSE None

\* _calc_event_recurrences(rruleobj, dt_start, past): exc is the exception
\* that leaves it, ret the value returned, alg the algorithmic expansion
CalcEventRecurrences(obj, start, incl_past, t_now, limit, wkst) ==
    IF ~Truthy(RuleFreq(obj))
    THEN [exc |-> "", ret |-> None, alg |-> <<>>]
    ELSE CalcAllRecurrences(rr_rrule(RRuleArgs(obj, start, limit, wkst)),
                            obj, incl_past, t_now)

-----------------------------------------------------------------------------
(* The occurrence generator on its own: Init draws a rule object, an anchor *)
(* and the configuration, the action runs _calc_event_recurrences on them. *)

RuleKeys == {"freq", "interval", "count", "until", "bysetpos", "bymonth",
             "bymonthday", "byyearday", "byweekno", "byweekday", "byhour",
             "byminute", "date", "except"}

\* anchors: Monday 2024-01-01 10:00 and Wednesday 2024-01-31 23:30
StartTimes == {600, 44610}
\* until: 2024-01-03 10:00 (the third daily occurrence of the first anchor)
\* and 2024-03-31 23:30
UntilValues == {None, PyDt(3480), PyDt(131010)}
FreqValues == {None, Word("YEARLY"), Word("MONTHLY"), Word("WEEKLY"),
               Word("DAILY"), Word("HOURLY"), Word("MINUTELY")}
OtherFreqValues == {Word("daily"), Word("FORTNIGHTLY")}
IntervalValues == {None, PyInt(2)}
CountValues == {None, PyInt(-1)} \cup {PyInt(c) : c \in 1..MaxCount}
\* date lists: one entry that the daily expansion of the first anchor also
\* produces; entries off the expansion, unsorted, repeated, one after every
\* until value, one as text, one that is no datetime
DateValues == {None,
               PyList(<<PyDt(2040)>>),
               PyList(<<Word("tomorrow"), PyDt(200000), PyDt(700),
                        PyStr(<<TD(700)>>)>>)}
ExceptValues == {None,
                 PyList(<<PyDt(2040)>>),
                 PyList(<<PyDt(700), Word("never"), PyDt(600)>>)}
\* at most one by* rule at a time
ByValues ==
    {<<"byhour", PyInt(0)>>, <<"byhour", PyInt(11)>>,
     <<"byminute", PyInt(30)>>,
     <<"byweekday", Word("MO")>>, <<"byweekday", Word("fr")>>,
     <<"byweekday", Word("XX")>>,
     <<"bymonth", PyInt(2)>>, <<"bymonthday", PyInt(10)>>,
     <<"byyearday", PyInt(10)>>, <<"byweekno", PyInt(2)>>,
     <<"bysetpos", PyInt(1)>>, <<"bysetpos", PyInt(-1)>>,
     <<"bysetpos", PyInt(2)>>, <<"bysetpos", PyInt(0)>>}

RuleObj(f, i, c, u, d, e, by) ==
    PyDict([key \in RuleKeys |->
              CASE key = "freq" -> f [] key = "interval" -> i
                [] key = "count" -> c [] key = "until" -> u
                [] key = "date" -> d [] key = "except" -> e
                [] OTHER -> IF by # <<>> /\ by[1] = key THEN by[2] ELSE None])

\* every combination without a by* rule, and every by* rule on a smaller set
RuleObjs ==
    {RuleObj(f, i, c, u, d, e, <<>>) :
        f \in FreqValues, i \in IntervalValues, c \in CountValues,
        u \in {None, PyDt(3480)}, d \in DateValues, e \in ExceptValues}
    \cup
    {RuleObj(f, i, None, u, None, None, by) :
        f \in FreqValues \cup OtherFreqValues, i \in IntervalValues,
        u \in UntilValues, by \in ByValues \cup {<<>>}}

\* the state outside the occurrence generator
NoParse == expression = None /\ rrule = None
NoStore == files = {} /\ events = <<>> /\ master_view = <<>>
NoSearch == term = None /\ recur = FALSE /\ this_events = <<>>
NoShell == threads = <<>> /\ observed = <<>> /\ complete_view = <<>>
NoEdit ==
    /\ default_duration = DEFAULT_DURATION /\ edit = <<>>
    /\ deletions = <<>> /\ source = <<>> /\ returned = <<>>

InitRecur ==
    /\ pc = "call"
    /\ recurrence_limit \in 1..MaxRecurrenceLimit
    /\ first_weekday = 6
    /\ interactive = FALSE
    /\ now = 2041
    /\ rruleobj \in RuleObjs
    /\ dt_start \in StartTimes
    /\ past \in BOOLEAN
    /\ algorithmic = <<>>
    /\ recurrences = None
    /\ raised = ""
    /\ crashed = FALSE
    /\ NoParse /\ NoStore /\ NoSearch /\ NoShell
    /\ NoEdit

CallCalcEventRecurrences ==
    /\ pc = "call"
    /\ \E r \in {CalcEventRecurrences(rruleobj, dt_start, past, now,
                                       recurrence_limit, first_weekday)} :
          /\ pc' = IF r.exc = "" THEN "return" ELSE "raise"
          /\ recurrences' = r.ret
          /\ algorithmic' = r.alg
          /\ raised' = r.exc
    /\ UNCHANGED <<recurrence_limit, first_weekday, interactive, now,
                   rruleobj, dt_start, past, expression, rrule, files,
                   events, master_view, crashed>>
    /\ UNCHANGED <<searchVars, shellVars>>
    /\ UNCHANGED editVars

NextRecur == CallCalcEventRecurrences

SpecRecur == InitRecur /\ [][NextRecur]_vars

-----------------------------------------------------------------------------
(* Properties of the occurrence generator (checked under SpecRecur) *)

Returned == pc = "return"
FreqSet == Truthy(Get(rruleobj, "freq"))
ValidFreq == FreqSet /\ Frequencies(Upper(Get(rruleobj, "freq"))) # None
NoCount == Get(rruleobj, "count") = None
NoUntil == Get(rruleobj, "until") = None
IsList == recurrences.k = "list"
\* the timestamps of the valid entries of a date or except list
ValidEntries(v) ==
    {DatetimeOrNone(e).n : e \in {x \in Elems(v.l) : Truthy(DatetimeOrNone(x))}}
ValidDates == ValidEntries(Get(rruleobj, "date"))
ValidExcepts == ValidEntries(Get(rruleobj, "except"))
Min(a, b) == IF a <= b THEN a ELSE b

C2_CountBoundedByLimit ==
    (Returned /\ ValidFreq /\ Get(rruleobj, "count").k = "int"
       /\ Get(rruleobj, "count").n > 0)
        => Len(algorithmic) <= Min(Get(rruleobj, "count").n, recurrence_limit)

\* C3, as claimed: with freq set and until = U, every start in the list
\* returned with past=True is at most U.
C3_AllStartsUpToUntil ==
    (Returned /\ past /\ FreqSet /\ Get(rruleobj, "until").k = "dt" /\ IsList)
        => \A t \in Elems(recurrences.l) : t <= Get(rruleobj, "until").n

\* C3, amended: with freq set and until = U, every start in the list
\* returned with past=True is at most U or is one of the rule's valid date
\* entries.
C3_StartsUpToUntilOrDates ==
    (Returned /\ past /\ FreqSet /\ Get(rruleobj, "until").k = "dt" /\ IsList)
        => \A t \in Elems(recurrences.l) :
              t <= Get(rruleobj, "until").n \/ t \in ValidDates

\* C3, witness: the expansion is cut at until, not by the limit, and the
\* occurrence that falls on U itself is kept.
C3_Witness ==
    /\ Returned /\ past /\ FreqSet /\ NoCount /\ IsList
    /\ Get(rruleobj, "until").k = "dt"
    /\ Get(rruleobj, "until").n \in Elems(recurrences.l)
    /\ Len(algorithmic) < recurrence_limit

\* C4, as claimed: with a (valid) freq, the list returned with past=True
\* contains every valid date entry that is not an except entry, contains no
\* valid except entry and is strictly ascending.
C4_DatesMergedExceptsRemovedSorted ==
    (Returned /\ past /\ ValidFreq)
        => /\ IsList
           /\ (ValidDates \ ValidExcepts) \subseteq Elems(recurrences.l)
           /\ Elems(recurrences.l) \cap ValidExcepts = {}
           /\ IsStrictlyAscending(recurrences.l)

-----------------------------------------------------------------------------
(* Events.parse_rrule.  The text of an expression is its sequence of       *)
(* tokens: words, integer literals, datetime literals, and the characters  *)
(* ";", "=", "," and " ".                                                  *)

\* str.split(c): the pieces between the occurrences of the character c
SplitCons(tok, parts) == <<<<tok>> \o Head(parts)>> \o Tail(parts)

RECURSIVE Split(_, _)
Split(toks, c) ==
    IF toks = <<>> THEN << <<>> >>
    ELSE IF Head(toks) = TP(c) THEN << <<>> >> \o Split(Tail(toks), c)
    ELSE SplitCons(Head(toks), Split(Tail(toks), c))

\* valid_criteria, without the "=" that ends each of them
ValidCriteria == {"date", "except", "freq", "count", "until", "interval",
                  "byhour", "byweekday", "bymonth", "bymonthday",
                  "byyearday", "byweekno", "bysetpos"}

\* the words that end with one of the valid criteria: the criteria themselves
\* and "update" (which ends with "date")
EndsWithCriterion(w) == w \in ValidCriteria \/ w = "update"

\* any(x in expression for x in valid_criteria): a substring test
AnyCriterion(toks) ==
    \E i \in 1..(Len(toks) - 1) :
        /\ toks[i].k = "w" /\ EndsWithCriterion(toks[i].w)
        /\ toks[i + 1] = TP("=")

\* the text of a dict key: a word, the empty text, or anything else
KeyText(toks) ==
    IF toks = <<>> THEN ""
    ELSE IF Len(toks) = 1 /\ toks[1].k = "w" THEN toks[1].w
    ELSE "?"

\* the items of expression.split(';'), each split at '='
SplitItems(toks) ==
    [i \in 1..Len(Split(toks, ";")) |-> Split(Split(toks, ";")[i], "=")]

\* "for k, v in ...": an item that is not exactly a key and a value raises
\* ValueError
UnpackFails(items) == \E i \in 1..Len(items) : Len(items[i]) # 2

\* dict((k.strip(), v.strip()) for k, v in ...): later items replace earlier
\* ones with the same key
DictPut(map, key, val) ==
    [x \in DOMAIN map \cup {key} |-> IF x = key THEN val ELSE map[x]]

RECURSIVE DictOfItems(_, _)
DictOfItems(items, map) ==
    IF items = <<>> THEN map
    ELSE DictOfItems(Tail(items),
                     DictPut(map, KeyText(Strip(Head(items)[1])),
                             PyStr(Strip(Head(items)[2]))))

\* rrule[key] = val
SetItem(d, key, val) == PyDict(DictPut(d.m, key, val))

\* _integer_or_default(inputdata): int() of the text of an integer literal,
\* the default (None) for any other text
IntegerOrDefault(v) ==
    IF v.k = "int" THEN v
    ELSE IF v.k = "str" /\ Len(Strip(v.l)) = 1 /\ Strip(v.l)[1].k = "n"
    THEN PyInt(Strip(v.l)[1].n)
    ELSE None

\* the datetimes among the entries of a ","-separated list, in list order
RECURSIVE ValidStamps(_)
ValidStamps(entries) ==
    IF entries = <<>> THEN <<>>
    ELSE (IF Truthy(DatetimeOrNone(PyStr(Head(entries))))
          THEN <<DatetimeOrNone(PyStr(Head(entries))).n>> ELSE <<>>)
         \o ValidStamps(Tail(entries))

\* a list of datetime objects
PyDts(ts) == PyList([i \in 1..Len(ts) |-> PyDt(ts[i])])

\* "if rrule.get('date'):" and "if rrule.get('except'):": the valid entries,
\* sorted
ParseDateList(d, key) ==
    IF Truthy(Get(d, key))
    THEN SetItem(d, key,
                 PyDts(Sorted(ValidStamps(Split(Get(d, key).l, ",")))))
    ELSE d

\* "if rrule.get('freq'):"
ParseFreq(d) ==
    IF Truthy(Get(d, "freq"))
    THEN SetItem(d, "freq",
                 IF Upper(Get(d, "freq")) \in
                      {Word("MINUTELY"), Word("HOURLY"), Word("DAILY"),
                       Word("WEEKLY"), Word("MONTHLY"), Word("YEARLY")}
                 THEN Upper(Get(d, "freq")) ELSE None)
    ELSE d

\* "if rrule.get('count'):", and the same for interval and bysetpos
ParseInteger(d, key) ==
    IF Truthy(Get(d, key))
    THEN SetItem(d, key, IntegerOrDefault(Get(d, key)))
    ELSE d

\* "if rrule.get('until'):"
ParseUntil(d) ==
    IF Truthy(Get(d, "until"))
    THEN SetItem(d, "until", DatetimeOrNone(Get(d, "until")))
    ELSE d

\* "if rr_byhour: if 0 <= rr_byhour <= 23: ... else None, else None"
InRange(v, lo, hi) ==
    IF Truthy(v)
    THEN IF lo <= v.n /\ v.n <= hi THEN v ELSE None
    ELSE None

\* "if rrule.get('byhour'):", and the same for bymonth, bymonthday,
\* byyearday and byweekno with their ranges
ParseRange(d, key, lo, hi) ==
    IF Truthy(Get(d, key))
    THEN SetItem(d, key, InRange(IntegerOrDefault(Get(d, key)), lo, hi))
    ELSE d

\* "if rrule.get('byweekday'):"
ParseByweekday(d) ==
    IF Truthy(Get(d, "byweekday"))
    THEN SetItem(d, "byweekday",
                 IF Upper(Get(d, "byweekday")) \in
                      {Word("SU"), Word("MO"), Word("TU"), Word("WE"),
                       Word("TH"), Word("FR"), Word("SA")}
                 THEN Upper(Get(d, "byweekday")) ELSE None)
    ELSE d

\* the field validations of parse_rrule, in the order of the code
ParseFields(d) ==
    ParseInteger(
      ParseRange(
        ParseRange(
          ParseRange(
            ParseRange(
              ParseByweekday(
                ParseRange(
                  ParseInteger(
                    ParseUntil(
                      ParseInteger(
                        ParseFreq(
                          ParseDateList(ParseDateList(d, "date"), "except")),
                        "count")),
                    "interval"),
                  "byhour", 0, 23)),
              "bymonth", 1, 12),
            "bymonthday", 1, 31),
          "byyearday", 1, 366),
        "byweekno", 1, 53),
      "bysetpos")

\* the rrule that parse_rrule has before "if rrule.get('date'):": None for an
\* expression without a valid criterion and for one whose items do not
\* unpack (ValueError, caught), the dict of the items otherwise
RawRule(expr) ==
    IF \/ ~AnyCriterion(Lower(expr).l)
       \/ UnpackFails(SplitItems(Lower(expr).l))
    THEN None
    ELSE PyDict(DictOfItems(SplitItems(Lower(expr).l), <<>>))

\* parse_rrule(expression): exc is the exception that leaves it, ret the
\* value returned.  rrule.get of None raises AttributeError.
parse_rrule(expr) ==
    IF RawRule(expr).k = "none"
    THEN [exc |-> "AttributeError", ret |-> None]
    ELSE [exc |-> "", ret |-> ParseFields(RawRule(expr))]

-----------------------------------------------------------------------------
(* Events.new from its rrule argument on (the other arguments are valid): *)
(* Init draws the expression, the actions parse it and write the event.   *)

\* the text "key=value"
Item(key, val) == <<TW(key), TP("=")>> \o val

\* the range fields with every integer from below to above their range
RangeItems ==
    {Item("byhour", <<TN(n)>>) : n \in -1..24}
    \cup {Item("bymonth", <<TN(n)>>) : n \in 0..13}
    \cup {Item("bymonthday", <<TN(n)>>) : n \in 0..32}
    \cup {Item("byyearday", <<TN(n)>>) : n \in 0..367}
    \cup {Item("byweekno", <<TN(n)>>) : n \in 0..54}

\* items with valid, invalid and unrecognized keys and values, and items
\* that are no "key=value"
CoreItems ==
    {Item("freq", <<TW("daily")>>), Item("FREQ", <<TW("WEEKLY")>>),
     Item("freq", <<TW("bogus")>>), Item("freq", <<>>),
     <<TP(" ")>> \o Item("freq", <<TP(" "), TW("yearly")>>),
     <<TW("freq"), TP(" "), TP("="), TW("daily")>>,
     Item("count", <<TN(2)>>), Item("count", <<TN(0)>>),
     Item("count", <<TW("abc")>>),
     Item("interval", <<TN(2)>>),
     Item("until", <<TD(3480)>>), Item("until", <<TW("never")>>),
     Item("date", <<TD(2040), TP(","), TW("tomorrow"), TP(","), TD(700)>>),
     Item("except", <<TD(2040)>>),
     Item("byweekday", <<TW("mo")>>), Item("byweekday", <<TW("xx")>>),
     Item("byhour", <<TW("abc")>>),
     Item("bysetpos", <<TN(-1)>>), Item("bysetpos", <<TN(0)>>),
     Item("foo", <<TW("bar")>>), Item("update", <<TN(1)>>),
     <<TW("freq")>>, Item("freq", Item("a", <<TW("b")>>)), <<>>}

\* the items that are put in front of every range item
LeadItems == {Item("freq", <<TW("bogus")>>), Item("count", <<TN(2)>>)}

Expressions ==
    {None}
    \cup {PyStr(a) : a \in CoreItems \cup RangeItems}
    \cup {PyStr(a \o <<TP(";")>> \o b) : a, b \in CoreItems}
    \cup {PyStr(a \o <<TP(";")>> \o b) : a \in LeadItems, b \in RangeItems}

InitParse ==
    /\ pc = "new"
    /\ recurrence_limit = MaxRecurrenceLimit
    /\ first_weekday = 6
    /\ interactive \in BOOLEAN
    /\ now = 2041
    /\ expression \in Expressions
    /\ dt_start = 600
    /\ rrule = None
    /\ rruleobj = None
    /\ past = TRUE
    /\ algorithmic = <<>>
    /\ recurrences = None
    /\ raised = ""
    /\ crashed = FALSE
    /\ NoStore /\ NoSearch /\ NoShell
    /\ NoEdit

\* new, "if rrule: new_rrule = self.parse_rrule(rrule) else: new_rrule = None"
NewParseRrule ==
    /\ pc = "new"
    /\ \E r \in {IF Truthy(expression) THEN parse_rrule(expression)
                 ELSE [exc |-> "", ret |-> None]} :
          /\ pc' = IF r.exc = "" THEN "write" ELSE "raise"
          /\ rrule' = r.ret
          /\ raised' = r.exc
    /\ UNCHANGED <<recurrence_limit, first_weekday, interactive, now,
                   rruleobj, dt_start, past, algorithmic, recurrences,
                   expression, files, events, master_view, crashed>>
    /\ UNCHANGED <<searchVars, shellVars>>
    /\ UNCHANGED editVars

\* the event that new writes: uid and alias are fresh, start is the anchor
\* and end the default duration later
NewEvent(uid, alias, t_start, t_now, new_rrule) ==
    PyDict([uid |-> Word(uid), alias |-> Word(alias),
            created |-> PyDt(t_now), updated |-> PyDt(t_now),
            start |-> PyDt(t_start),
            end |-> PyDt(t_start + DEFAULT_DURATION),
            tags |-> None, rrule |-> new_rrule])

\* new, "self._write_yaml_file(data, filename)"
NewWriteFile ==
    /\ pc = "write"
    /\ pc' = "done"
    /\ files' = files \cup {[path |-> "new",
                             data |-> NewEvent("new", "anew", dt_start, now,
                                               rrule)]}
    /\ UNCHANGED <<recurrence_limit, first_weekday, interactive, now,
                   rruleobj, dt_start, past, algorithmic, recurrences,
                   expression, rrule, raised, events, master_view, crashed>>
    /\ UNCHANGED <<searchVars, shellVars>>
    /\ UNCHANGED editVars

\* no caller handles the exception: it ends the process with a traceback, in
\* the shell as on the command line
Uncaught ==
    /\ pc = "raise"
    /\ pc' = "exit"
    /\ crashed' = TRUE
    /\ UNCHANGED <<recurrence_limit, first_weekday, interactive, now,
                   rruleobj, dt_start, past, algorithmic, recurrences,
                   expression, rrule, raised, files, events, master_view>>
    /\ UNCHANGED <<searchVars, shellVars>>
    /\ UNCHANGED editVars

NextParse == NewParseRrule \/ NewWriteFile \/ Uncaught

SpecParse == InitParse /\ [][NextParse]_vars

-----------------------------------------------------------------------------
(* Properties of the rule parser (checked under SpecParse) *)

IsText == expression.k = "str" /\ Truthy(expression)
ExprItems == SplitItems(Lower(expression).l)
\* the keys of the items of the expression, when every item is a key=value
ExprKeys == {KeyText(Strip(ExprItems[i][1])) : i \in 1..Len(ExprItems)}
Parsed == pc \in {"write", "done"}
ParseEnded == pc # "new"
WrittenRules == {f.data.m.rrule : f \in files}

\* C5, as claimed: for an expression of key=value items none of whose keys
\* is a recognized rule key, parse_rrule returns None and raises nothing.
C5_UnrecognizedReturnsNull ==
    (ParseEnded /\ IsText /\ ~UnpackFails(ExprItems)
       /\ ExprKeys \cap ValidCriteria = {})
        => raised = "" /\ rrule = None /\ ~crashed

\* C6, as claimed: for an expression with a recognized key token that does
\* not split into key=value items, new does not crash and no rule is
\* written for the event.
C6_MalformedFailsWithoutCrash ==
    (IsText /\ AnyCriterion(Lower(expression).l) /\ UnpackFails(ExprItems))
        => ~crashed /\ WrittenRules \subseteq {None}

\* the inclusive range of a range field
FieldRange(key) ==
    CASE key = "byhour" -> 0..23 [] key = "bymonth" -> 1..12
      [] key = "bymonthday" -> 1..31 [] key = "byyearday" -> 1..366
      [] key = "byweekno" -> 1..53
RangeFields == {"byhour", "bymonth", "bymonthday", "byyearday", "byweekno"}
IntegerFields == {"count", "interval", "bysetpos"}
IsInteger(v) == IntegerOrDefault(v).k = "int"

\* the value of a recognized scalar field is valid
FieldValid(key, v) ==
    CASE key = "freq" -> Frequencies(Upper(v)) # None
      [] key = "byweekday" -> Weekdays(Upper(v)) # None
      [] key = "until" -> DatetimeOrNone(v) # None
      [] key \in IntegerFields -> IsInteger(v)
      [] key \in RangeFields ->
           IsInteger(v) /\ IntegerOrDefault(v).n \in FieldRange(key)

\* the validated value of a valid field
FieldValue(key, v) ==
    CASE key \in {"freq", "byweekday"} -> Upper(v)
      [] key = "until" -> DatetimeOrNone(v)
      [] OTHER -> IntegerOrDefault(v)

ScalarFields ==
    {"freq", "byweekday", "until"} \cup IntegerFields \cup RangeFields
\* the scalar fields the expression gives a (non-empty) value
GivenFields ==
    {key \in ScalarFields \cap DOMAIN RawRule(expression).m :
        Truthy(RawRule(expression).m[key])}

\* C7, as claimed: when the value of a recognized field is invalid, the
\* result is a rule in which that field is None and every other recognized
\* field with a valid value has its validated value.
C7_InvalidFieldNullsOnlyThatField ==
    (Parsed /\ IsText /\ RawRule(expression) # None
       /\ \E bad \in GivenFields :
             ~FieldValid(bad, RawRule(expression).m[bad]))
        => /\ rrule.k = "dict"
           /\ \A key \in GivenFields :
                Get(rrule, key) =
                  IF FieldValid(key, RawRule(expression).m[key])
                  THEN FieldValue(key, RawRule(expression).m[key])
                  ELSE None

\* C8, as claimed: a range field given as an integer is kept if and only if
\* the integer lies in the field's inclusive range, and is None otherwise.
C8_RangeFieldsKeptIffInRange ==
    (Parsed /\ IsText /\ RawRule(expression) # None)
        => \A key \in GivenFields \cap RangeFields :
              IsInteger(RawRule(expression).m[key])
                => Get(rrule, key) =
                     IF IntegerOrDefault(RawRule(expression).m[key]).n
                          \in FieldRange(key)
                     THEN IntegerOrDefault(RawRule(expression).m[key])
                     ELSE None

-----------------------------------------------------------------------------
(* The event store: the files of the data directory, the events parsed from *)
(* them (in the order the dict holds them) and the master view.             *)

\* Events._parse_files, "if add_event: if alias and uid:" with the tests
\* that clear add_event
AddEvent(acc, ev) ==
    /\ ~(Truthy(Get(ev, "uid")) /\ Get(ev, "uid") \in acc.uids)
    /\ ~(Truthy(Get(ev, "alias")) /\ Get(ev, "alias") \in acc.aliases)
    /\ Truthy(Get(ev, "start"))
    /\ Truthy(DatetimeOrNone(Get(ev, "start")))
    /\ Truthy(Get(ev, "alias")) /\ Truthy(Get(ev, "uid"))

\* Events._parse_files, one directory entry: acc holds this_events and the
\* keys of this_event_files and aliases
ParseFile(acc, ev) ==
    IF AddEvent(acc, ev)
    THEN [events |-> Append(acc.events, ev),
          uids |-> acc.uids \cup {Get(ev, "uid")},
          aliases |-> acc.aliases \cup {Get(ev, "alias")}]
    ELSE acc

\* Events._parse_files over the directory entries in the order os.scandir
\* gives them
RECURSIVE ParseFiles(_, _)
ParseFiles(order, acc) ==
    IF order = <<>> THEN acc.events
    ELSE ParseFiles(Tail(order), ParseFile(acc, Head(order).data))

\* the orders in which os.scandir can give the files
Orders(fs) ==
    {o \in [1..Cardinality(fs) -> fs] :
        \A i, j \in 1..Cardinality(fs) : i # j => o[i] # o[j]}

\* Events.parse_event, start: the datetime, or now ("failsafe")
ParseEventStart(ev, t_now) ==
    IF Truthy(Get(ev, "start")) /\ Truthy(DatetimeOrNone(Get(ev, "start")))
    THEN DatetimeOrNone(Get(ev, "start")).n
    ELSE t_now

\* Events.parse_event, end: without a datetime the "failsafe" calls
\* _calc_end_dt(start, None), whose end.startswith raises AttributeError
ParseEventEndFails(ev) ==
    ~(Truthy(Get(ev, "end")) /\ Truthy(DatetimeOrNone(Get(ev, "end"))))

ParseEventEnd(ev) == DatetimeOrNone(Get(ev, "end")).n

\* an entry of the master view
Occurrence(uid, t_start, t_end) ==
    [uid |-> uid, start |-> t_start, end |-> t_end]

\* _calc_master_view: the entry with the event's own start and end
OwnOccurrence(ev, t_now) ==
    <<Occurrence(Get(ev, "uid"), ParseEventStart(ev, t_now),
                 ParseEventEnd(ev))>>

\* _calc_master_view, "for recur in recurrences:"
RecurOccurrences(ev, recs, t_now) ==
    [i \in 1..Len(recs) |->
       Occurrence(Get(ev, "uid"), recs[i],
                  recs[i] + (ParseEventEnd(ev) - ParseEventStart(ev, t_now)))]

\* _calc_master_view, "if recurrences: ... else: ...": r is the outcome of
\* _calc_event_recurrences
EventOccurrencesOf(r, ev, t_now) ==
    IF r.exc # "" THEN [exc |-> r.exc, l |-> <<>>]
    ELSE [exc |-> "",
          l |-> IF Truthy(r.ret) THEN RecurOccurrences(ev, r.ret.l, t_now)
                ELSE OwnOccurrence(ev, t_now)]

\* _calc_master_view, the body of "for entry in self.events:"
EventOccurrences(ev, t_now, limit, wkst) ==
    IF ParseEventEndFails(ev) THEN [exc |-> "AttributeError", l |-> <<>>]
    ELSE IF Truthy(Get(ev, "rrule"))
    THEN EventOccurrencesOf(
           CalcEventRecurrences(Get(ev, "rrule"), ParseEventStart(ev, t_now),
                                TRUE, t_now, limit, wkst),
           ev, t_now)
    ELSE [exc |-> "", l |-> OwnOccurrence(ev, t_now)]

\* the entries of one event followed by those of the later events, unless
\* an exception ended the loop
JoinViews(a, b) ==
    IF a.exc # "" THEN a
    ELSE IF b.exc # "" THEN b
    ELSE [exc |-> "", l |-> a.l \o b.l]

\* _calc_master_view, unsorted_view
RECURSIVE UnsortedView(_, _, _, _)
UnsortedView(evs, t_now, limit, wkst) ==
    IF evs = <<>> THEN [exc |-> "", l |-> <<>>]
    ELSE JoinViews(EventOccurrences(Head(evs), t_now, limit, wkst),
                   UnsortedView(Tail(evs), t_now, limit, wkst))

\* sorted(unsorted_view, key=lambda x: x['start']): stable
RECURSIVE InsertByStart(_, _)
InsertByStart(s, x) ==
    IF s = <<>> THEN <<x>>
    ELSE IF x.start <= Head(s).start THEN <<x>> \o s
    ELSE <<Head(s)>> \o InsertByStart(Tail(s), x)

\* the master view left as it was built
SortedByStart_Unsorted(view) == view

RECURSIVE SortedByStart(_)
SortedByStart(view) ==
    IF view = <<>> THEN <<>>
    ELSE InsertByStart(SortedByStart(Tail(view)), Head(view))

\* _calc_master_view: exc is the exception that leaves it, view the new
\* master view
CalcMasterViewOf(unsorted) ==
    [exc |-> unsorted.exc, view |-> SortedByStart(unsorted.l)]

CalcMasterView(evs, t_now, limit, wkst) ==
    CalcMasterViewOf(UnsortedView(evs, t_now, limit, wkst))

MaxFiles == 2

\* an event file: its path and the event it holds
EventFile(path, uid, alias, t_start, t_end, rule) ==
    [path |-> path,
     data |-> PyDict([uid |-> uid, alias |-> alias,
                      created |-> PyDt(0), updated |-> PyDt(0),
                      start |-> t_start, end |-> t_end,
                      tags |-> None, rrule |-> rule])]

\* the files that can be in the data directory: an event without a rule;
\* daily rules (one with a date entry before its start); a yearly rule; a
\* rule whose until lies before the start; a rule with bysetpos 0; a second
\* file with the uid of the first; a file without a start; an event whose
\* start is text and equals the start of the first; an event without an end;
\* an event whose alias is the alias of the first in capitals; an event with
\* the very alias of the first
EventFiles ==
    {EventFile("p1", Word("u1"), Word("a1"), PyDt(600), PyDt(660), None),
     EventFile("p2", Word("u2"), Word("a2"), PyDt(300), PyDt(360),
               PyDict([freq |-> Word("DAILY"), count |-> PyInt(3)])),
     EventFile("p3", Word("u3"), Word("a3"), PyDt(2000), PyDt(2030),
               PyDict([freq |-> Word("DAILY"), count |-> PyInt(2),
                       date |-> PyList(<<PyDt(700)>>)])),
     EventFile("p4", Word("u4"), Word("a4"), PyDt(1000), PyDt(1100),
               PyDict([freq |-> Word("YEARLY")])),
     EventFile("p5", Word("u5"), Word("a5"), PyDt(900), PyDt(960),
               PyDict([freq |-> Word("DAILY"), until |-> PyDt(0)])),
     EventFile("p6", Word("u6"), Word("a6"), PyDt(1200), PyDt(1260),
               PyDict([freq |-> Word("DAILY"), bysetpos |-> PyInt(0)])),
     EventFile("p7", Word("u1"), Word("a7"), PyDt(5000), PyDt(5060), None),
     EventFile("p8", Word("u8"), Word("a8"), None, None, None),
     EventFile("p9", Word("u9"), Word("a9"), PyStr(<<TD(600)>>), PyDt(630),
               None),
     EventFile("p10", Word("u10"), Word("a10"), PyDt(1500), None, None),
     EventFile("p11", Word("u11"), Word("A1"), PyDt(1600), PyDt(1630), None),
     EventFile("p12", Word("u12"), Word("a1"), PyDt(1700), PyDt(1730), None)}

\* the state after Events.__init__ on an empty data directory
Init ==
    /\ pc = "idle"
    /\ recurrence_limit = MaxRecurrenceLimit
    /\ first_weekday = 6
    /\ interactive = FALSE
    /\ now = 2041
    /\ rruleobj = None
    /\ dt_start = 0
    /\ past = TRUE
    /\ algorithmic = <<>>
    /\ recurrences = None
    /\ raised = ""
    /\ crashed = FALSE
    /\ NoParse /\ NoStore /\ NoSearch /\ NoShell
    /\ NoEdit

\* a file is written into the data directory (new, or a copy from elsewhere)
WriteFile ==
    /\ pc = "idle"
    /\ Cardinality(files) < MaxFiles
    /\ \E f \in EventFiles \ files : files' = files \cup {f}
    /\ UNCHANGED <<pc, recurrence_limit, first_weekday, interactive, now,
                   rruleobj, dt_start, past, algorithmic, recurrences,
                   expression, rrule, raised, events, master_view, crashed>>
    /\ UNCHANGED <<searchVars, shellVars>>
    /\ UNCHANGED editVars

\* a file is removed from the data directory
DeleteFile ==
    /\ pc = "idle"
    /\ \E f \in files : files' = files \ {f}
    /\ UNCHANGED <<pc, recurrence_limit, first_weekday, interactive, now,
                   rruleobj, dt_start, past, algorithmic, recurrences,
                   expression, rrule, raised, events, master_view, crashed>>
    /\ UNCHANGED <<searchVars, shellVars>>
    /\ UNCHANGED editVars

\* refresh(): _parse_files() sets self.events, _calc_master_view() then
\* sets self.master_view unless an exception leaves it first
Refresh ==
    /\ pc \in {"idle", "written"}
    /\ \E order \in Orders(files) :
         \E evs \in {ParseFiles(order, [events |-> <<>>, uids |-> {},
                                        aliases |-> {}])} :
           \E v \in {CalcMasterView(evs, now, recurrence_limit,
                                    first_weekday)} :
              /\ events' = evs
              /\ master_view' = IF v.exc = "" THEN v.view ELSE master_view
              /\ raised' = v.exc
              /\ pc' = IF v.exc = "" THEN "idle" ELSE "raise"
    /\ UNCHANGED <<recurrence_limit, first_weekday, interactive, now,
                   rruleobj, dt_start, past, algorithmic, recurrences,
                   expression, rrule, files, crashed>>
    /\ UNCHANGED <<searchVars, shellVars>>
    /\ UNCHANGED editVars

Next == WriteFile \/ DeleteFile \/ Refresh \/ Uncaught

Spec == Init /\ [][Next]_vars

-----------------------------------------------------------------------------
(* Properties of the master view (checked under Spec) *)

\* C9: the master view is sorted ascending by start, whatever events it was
\* rebuilt from.
C9_MasterViewSorted ==
    \A i \in 1..(Len(master_view) - 1) :
        master_view[i].start <= master_view[i + 1].start

\* C9, witness: a rebuilt master view in which the occurrences of two events
\* interleave (an occurrence of one event lies between two of another).
C9_Witness ==
    /\ pc = "idle"
    /\ \E i, j, k \in 1..Len(master_view) :
          /\ i < j /\ j < k
          /\ master_view[i].uid = master_view[k].uid
          /\ master_view[j].uid # master_view[i].uid
          /\ master_view[i].start < master_view[j].start
          /\ master_view[j].start < master_view[k].start

\* the entries of the master view that belong to the event ev
EntriesOf(ev) ==
    {i \in 1..Len(master_view) : master_view[i].uid = Get(ev, "uid")}

\* the rule of ev is absent or expands to nothing (None or an empty list)
ExpandsToNothing(ev) ==
    \/ ~Truthy(Get(ev, "rrule"))
    \/ ~Truthy(CalcEventRecurrences(Get(ev, "rrule"),
                                    ParseEventStart(ev, now), TRUE, now,
                                    recurrence_limit, first_weekday).ret)

\* C10, as claimed: every event of the event map has an occurrence in the
\* master view, and exactly one, with its own start and end, when it has no
\* rule or its rule expands to nothing.
C10_EveryEventHasOccurrence ==
    \A n \in 1..Len(events) :
        /\ EntriesOf(events[n]) # {}
        /\ ExpandsToNothing(events[n])
             => /\ Cardinality(EntriesOf(events[n])) = 1
                /\ \A i \in EntriesOf(events[n]) :
                      /\ master_view[i].start
                           = ParseEventStart(events[n], now)
                      /\ master_view[i].end = ParseEventEnd(events[n])

-----------------------------------------------------------------------------
(* Events.perform_search.  Texts are token sequences as before, with the   *)
(* characters "%", "+" and "~" in addition; the datetimes of a range are   *)
(* kept in seconds (a timestamp t of an event is the second 60 * t).       *)

\* a datetime literal with seconds: second s of minute t
TDS(t, s) == [k |-> "ds", n |-> 60 * t + s, w |-> ""]

\* the words that lie inside other words
WordContains(big, small) ==
    \/ big = small
    \/ <<big, small>> \in {<<"homework", "work">>, <<"workshop", "work">>,
                           <<"office", "off">>, <<"bobby", "bob">>}

\* "q in text" for two strings: a query of one word is found inside a word
\* of the text, any other query token by token; the empty query is in
\* every text
InText(q, text) ==
    \/ q = <<>>
    \/ /\ Len(q) = 1 /\ q[1].k = "w"
       /\ \E i \in 1..Len(text) :
             text[i].k = "w" /\ WordContains(text[i].w, q[1].w)
    \/ /\ Len(q) > 1
       /\ \E off \in 0..(Len(text) - Len(q)) :
             \A i \in 1..Len(q) : text[off + i] = q[i]

\* "x in s" for a character x
HasChar(toks, c) == \E i \in 1..Len(toks) : toks[i] = TP(c)

\* valid_criteria of perform_search, without the "=" that ends each of them
SearchCriteria == {"uid", "calendar", "description", "location", "alias",
                   "tags", "start", "end", "notes"}

\* any(x in searchterm for x in valid_criteria): a word that ends with one
\* of them (the criteria themselves and "weekend", which ends with "end")
\* is followed by "="
AnySearchCriterion(toks) ==
    \E i \in 1..(Len(toks) - 1) :
        /\ toks[i].k = "w" /\ toks[i].w \in SearchCriteria \cup {"weekend"}
        /\ toks[i + 1] = TP("=")

\* the items of searchterm.split(','), each split at '='
SearchItems(toks) ==
    [i \in 1..Len(Split(toks, ",")) |-> Split(Split(toks, ",")[i], "=")]

\* "parse the search term into a dict": exc is "ValueError" when the items
\* do not unpack, d the dict (None for no filter).  A term without a valid
\* criterion is a description search.  any_is_none tells the search half,
\* where the term 'any' gives None, from the exclude half
TermDict(toks, any_is_none) ==
    IF toks = <<>> THEN [exc |-> "", d |-> None]
    ELSE IF any_is_none /\ toks = <<TW("any")>> THEN [exc |-> "", d |-> None]
    ELSE IF ~AnySearchCriterion(toks)
    THEN [exc |-> "", d |-> PyDict([description |-> PyStr(Strip(toks))])]
    ELSE IF UnpackFails(SearchItems(toks))
    THEN [exc |-> "ValueError", d |-> None]
    ELSE [exc |-> "", d |-> PyDict(DictOfItems(SearchItems(toks), <<>>))]

\* "if '%' in term: ..." : the lowercased search term
SearchTerm(t) ==
    IF HasChar(t.l, "%") THEN Lower(PyStr(Split(t.l, "%")[1])).l
    ELSE Lower(t).l

\* the lowercased exclude term, empty when there is none
ExcludeTerm(t) ==
    IF HasChar(t.l, "%") THEN Lower(PyStr(Split(t.l, "%")[2])).l
    ELSE <<>>

\* datetime(1969, 1, 1, 0, 0, 0, tzinfo=timezone.utc), in seconds: 20088
\* days before 2024-01-01
Origin == -(20088 * 86400)

\* _datetime_or_none of a text, to the second: ok tells a datetime from None
DatetimeOrNoneSec(toks) ==
    IF Len(Strip(toks)) = 1 /\ Strip(toks)[1].k = "d"
    THEN [ok |-> TRUE, s |-> 60 * Strip(toks)[1].n]
    ELSE IF Len(Strip(toks)) = 1 /\ Strip(toks)[1].k = "ds"
    THEN [ok |-> TRUE, s |-> Strip(toks)[1].n]
    ELSE [ok |-> FALSE, s |-> 0]

\* timestr.replace(c, "")
RemoveChar(toks, c) == SelectSeq(toks, LAMBDA x : x # TP(c))

StartsWithChar(toks, c) == toks # <<>> /\ Head(toks) = TP(c)
EndsWithChar(toks, c) == toks # <<>> /\ toks[Len(toks)] = TP(c)

\* _parse_dt_range, begin as the four forms give it
RangeBegin(timestr) ==
    IF StartsWithChar(timestr, "~") THEN [ok |-> TRUE, s |-> Origin]
    ELSE IF EndsWithChar(timestr, "~")
    THEN DatetimeOrNoneSec(RemoveChar(timestr, "~"))
    ELSE IF HasChar(timestr, "~")
    THEN DatetimeOrNoneSec(Strip(Split(timestr, "~")[1]))
    ELSE DatetimeOrNoneSec(timestr)

\* _parse_dt_range, end as the four forms give it
RangeEnd(timestr, now_s) ==
    IF StartsWithChar(timestr, "~")
    THEN DatetimeOrNoneSec(RemoveChar(timestr, "~"))
    ELSE IF EndsWithChar(timestr, "~") THEN [ok |-> TRUE, s |-> now_s]
    ELSE IF HasChar(timestr, "~")
    THEN DatetimeOrNoneSec(Strip(Split(timestr, "~")[2]))
    ELSE DatetimeOrNoneSec(timestr)

\* "elif end.hour == 0 and end.minute == 0:
\*      end = end.replace(hour=23, minute=59, second=59)"
Widen(t) ==
    IF (t % 86400) \div 3600 = 0 /\ ((t % 86400) % 3600) \div 60 = 0
    THEN (t \div 86400) * 86400 + 23 * 3600 + 59 * 60 + 59
    ELSE t

\* _parse_dt_range: "if not begin: begin = origin", "if not end: end = now",
\* else the widening
ParseDtRange(timestr, now_s) ==
    [begin |-> IF RangeBegin(timestr).ok THEN RangeBegin(timestr).s
               ELSE Origin,
     end |-> IF RangeEnd(timestr, now_s).ok
             THEN Widen(RangeEnd(timestr, now_s).s)
             ELSE now_s]

\* begin <= t <= end
Within(r, t) == r.begin <= t /\ t <= r.end

\* next_start and next_end when there is no next occurrence (None)
NoTime == -1

\* calc_next_recurrence with the end of the event as next_end
NextRecurrenceOf_OwnEnd(r, t_start, t_end) ==
    IF r.exc # "" THEN [exc |-> r.exc, start |-> NoTime, end |-> NoTime]
    ELSE IF Truthy(r.ret)
    THEN [exc |-> "", start |-> r.ret.l[1], end |-> t_end]
    ELSE [exc |-> "", start |-> NoTime, end |-> NoTime]

\* calc_next_recurrence: r is the outcome of _calc_event_recurrences with
\* past=False
NextRecurrenceOf(r, t_start, t_end) ==
    IF r.exc # "" THEN [exc |-> r.exc, start |-> NoTime, end |-> NoTime]
    ELSE IF Truthy(r.ret)
    THEN [exc |-> "", start |-> r.ret.l[1],
          end |-> r.ret.l[1] + (t_end - t_start)]
    ELSE [exc |-> "", start |-> NoTime, end |-> NoTime]

calc_next_recurrence(rule, t_start, t_end, t_now, limit, wkst) ==
    NextRecurrenceOf(
        CalcEventRecurrences(rule, t_start, FALSE, t_now, limit, wkst),
        t_start, t_end)

\* parse_event, alias and calendar: lowercased, the calendar "default" when
\* the event has none
ParseEventAlias(ev) ==
    IF Truthy(Get(ev, "alias")) THEN Lower(Get(ev, "alias"))
    ELSE Get(ev, "alias")

ParseEventCalendar(ev) ==
    IF "calendar" \notin DOMAIN ev.m THEN Word("default")
    ELSE IF Truthy(Get(ev, "calendar")) THEN Lower(Get(ev, "calendar"))
    ELSE Get(ev, "calendar")

\* self.events[uid]
EventOf(evs, uid) ==
    evs[CHOOSE i \in 1..Len(evs) : Get(evs[i], "uid") = uid]

\* the tags test with every tag of the query required
AnyTagIn_All(tags, evtags) ==
    \A i \in 1..Len(tags) :
        \E j \in 1..Len(evtags.l) : evtags.l[j] = PyStr(tags[i])

\* "for tag in tags: if tag in event['tags']": some tag of the query is an
\* element of the event's list
AnyTagIn(tags, evtags) ==
    \E i \in 1..Len(tags) :
        \E j \in 1..Len(evtags.l) : evtags.l[j] = PyStr(tags[i])

\* the time a start= or end= range is compared with, in seconds: the one of
\* the entry if recur, else the one of the event
ComparedTime(is_recur, t_entry, t_event) ==
    60 * (IF is_recur THEN t_entry ELSE t_event)

\* the exclude loop: "remove" for an entry of this_events and its event, set
\* by any of the tests on uid, alias, calendar, description, location, tags,
\* start, end and notes (the notes of the event are compared as they are)
ExcludeRemoves(x, entry, ev, is_recur, t_now) ==
    \/ /\ Truthy(Get(x, "uid")) /\ Truthy(entry.uid)
       /\ Get(x, "uid") = entry.uid
    \/ /\ Truthy(Get(x, "alias")) /\ Truthy(ParseEventAlias(ev))
       /\ Get(x, "alias") = ParseEventAlias(ev)
    \/ /\ Truthy(Get(x, "calendar")) /\ Truthy(ParseEventCalendar(ev))
       /\ InText(Get(x, "calendar").l, ParseEventCalendar(ev).l)
    \/ /\ Truthy(Get(x, "description")) /\ Truthy(Get(ev, "description"))
       /\ InText(Get(x, "description").l, Lower(Get(ev, "description")).l)
    \/ /\ Truthy(Get(x, "location")) /\ Truthy(Get(ev, "location"))
       /\ InText(Get(x, "location").l, Lower(Get(ev, "location")).l)
    \/ /\ Truthy(Get(x, "tags")) /\ Truthy(Get(ev, "tags"))
       /\ AnyTagIn(Split(Get(x, "tags").l, "+"), Get(ev, "tags"))
    \/ /\ Truthy(Get(x, "start"))
       /\ Within(ParseDtRange(Get(x, "start").l, 60 * t_now),
                 ComparedTime(is_recur, entry.start,
                              ParseEventStart(ev, t_now)))
    \/ /\ Truthy(Get(x, "end"))
       /\ Within(ParseDtRange(Get(x, "end").l, 60 * t_now),
                 ComparedTime(is_recur, entry.end, ParseEventEnd(ev)))
    \/ /\ Truthy(Get(x, "notes")) /\ Truthy(Get(ev, "notes"))
       /\ InText(Get(x, "notes").l, Get(ev, "notes").l)

\* the search loop: "remove" for an entry of this_events and its event, set
\* by any of the tests on uid, alias, calendar, description, location, tags
\* ("if not keep"), start, end and notes; a field the event lacks sets it too
SearchRemoves(q, entry, ev, is_recur, t_now) ==
    \/ /\ Truthy(Get(q, "uid")) /\ Truthy(entry.uid)
       /\ Get(q, "uid") # entry.uid
    \/ /\ Truthy(Get(q, "alias"))
       /\ Truthy(ParseEventAlias(ev)) => Get(q, "alias") # ParseEventAlias(ev)
    \/ /\ Truthy(Get(q, "calendar"))
       /\ Truthy(ParseEventCalendar(ev))
            => ~InText(Get(q, "calendar").l, ParseEventCalendar(ev).l)
    \/ /\ Truthy(Get(q, "description"))
       /\ Truthy(Get(ev, "description"))
            => ~InText(Get(q, "description").l,
                       Lower(Get(ev, "description")).l)
    \/ /\ Truthy(Get(q, "location"))
       /\ Truthy(Get(ev, "location"))
            => ~InText(Get(q, "location").l, Lower(Get(ev, "location")).l)
    \/ /\ Truthy(Get(q, "tags"))
       /\ ~(/\ Truthy(Get(ev, "tags"))
            /\ AnyTagIn(Split(Get(q, "tags").l, "+"), Get(ev, "tags")))
    \/ /\ Truthy(Get(q, "start"))
       /\ ~Within(ParseDtRange(Get(q, "start").l, 60 * t_now),
                  ComparedTime(is_recur, entry.start,
                               ParseEventStart(ev, t_now)))
    \/ /\ Truthy(Get(q, "end"))
       /\ ~Within(ParseDtRange(Get(q, "end").l, 60 * t_now),
                  ComparedTime(is_recur, entry.end, ParseEventEnd(ev)))
    \/ /\ Truthy(Get(q, "notes"))
       /\ Truthy(Get(ev, "notes"))
            => ~InText(Lower(Get(q, "notes")).l, Lower(Get(ev, "notes")).l)

\* "for entry in exclude_list: this_events.remove(entry)"
RECURSIVE RemoveEach(_, _)
RemoveEach(entries, removed) ==
    IF removed = <<>> THEN entries
    ELSE RemoveEach(RemoveFirst(entries, Head(removed)), Tail(removed))

\* exclude_list, empty without an exclude dict
ExcludeList(x, entries, evs, is_recur, t_now) ==
    IF ~Truthy(x) THEN <<>>
    ELSE SelectSeq(entries,
                   LAMBDA e : ExcludeRemoves(x, e, EventOf(evs, e.uid),
                                             is_recur, t_now))

\* not_match, empty without a search dict
NotMatch(q, entries, evs, is_recur, t_now) ==
    IF ~Truthy(q) THEN <<>>
    ELSE SelectSeq(entries,
                   LAMBDA e : SearchRemoves(q, e, EventOf(evs, e.uid),
                                            is_recur, t_now))

AfterExclude(x, entries, evs, is_recur, t_now) ==
    RemoveEach(entries, ExcludeList(x, entries, evs, is_recur, t_now))

AfterSearch(q, entries, evs, is_recur, t_now) ==
    RemoveEach(entries, NotMatch(q, entries, evs, is_recur, t_now))

\* perform_search, "for uid in self.events:": the entry of one event, with
\* nr the outcome of calc_next_recurrence
NextEntryOf(nr, ev) ==
    IF nr.exc # "" THEN [exc |-> nr.exc, l |-> <<>>]
    ELSE [exc |-> "",
          l |-> <<Occurrence(Get(ev, "uid"), nr.start, nr.end)>>]

NextEntry(ev, t_now, limit, wkst) ==
    IF ParseEventEndFails(ev) THEN [exc |-> "AttributeError", l |-> <<>>]
    ELSE IF Truthy(Get(ev, "rrule"))
    THEN NextEntryOf(
           calc_next_recurrence(Get(ev, "rrule"), ParseEventStart(ev, t_now),
                                ParseEventEnd(ev), t_now, limit, wkst),
           ev)
    ELSE [exc |-> "", l |-> OwnOccurrence(ev, t_now)]

RECURSIVE NextEntries(_, _, _, _)
NextEntries(evs, t_now, limit, wkst) ==
    IF evs = <<>> THEN [exc |-> "", l |-> <<>>]
    ELSE JoinViews(NextEntry(Head(evs), t_now, limit, wkst),
                   NextEntries(Tail(evs), t_now, limit, wkst))

\* sorted(this_events, key=lambda x: x['start']): comparing None with a
\* datetime (or with None) raises TypeError
SortedNext(r) ==
    IF r.exc # "" THEN r
    ELSE IF Len(r.l) >= 2 /\ \E i \in 1..Len(r.l) : r.l[i].start = NoTime
    THEN [exc |-> "TypeError", l |-> <<>>]
    ELSE [exc |-> "", l |-> SortedByStart(r.l)]

\* perform_search, this_events before the two loops
ThisEvents(is_recur, view, evs, t_now, limit, wkst) ==
    IF is_recur THEN [exc |-> "", l |-> view]
    ELSE SortedNext(NextEntries(evs, t_now, limit, wkst))

\* perform_search from the parsed halves q and x and the entries te: exc is
\* "invalid" for a half that does not parse, else the exception raised
PerformSearchOf(q, x, te, evs, is_recur, t_now) ==
    IF q.exc # "" \/ x.exc # "" THEN [exc |-> "invalid", ret |-> <<>>]
    ELSE IF te.exc # "" THEN [exc |-> te.exc, ret |-> <<>>]
    ELSE [exc |-> "",
          ret |-> AfterSearch(q.d,
                              AfterExclude(x.d, te.l, evs, is_recur, t_now),
                              evs, is_recur, t_now)]

perform_search(t, is_recur, view, evs, t_now, limit, wkst) ==
    PerformSearchOf(TermDict(SearchTerm(t), TRUE),
                    TermDict(ExcludeTerm(t), FALSE),
                    ThisEvents(is_recur, view, evs, t_now, limit, wkst),
                    evs, is_recur, t_now)

-----------------------------------------------------------------------------
(* Searching the store: the files are read by refresh(), then search terms  *)
(* are given to perform_search, with and without recur.                     *)

\* an event file with further fields
WithFields(f, fields) ==
    [path |-> f.path,
     data |-> PyDict([x \in DOMAIN f.data.m \cup DOMAIN fields |->
                        IF x \in DOMAIN fields THEN fields[x]
                        ELSE f.data.m[x]])]

Phrase(a, b) == PyStr(<<TW(a), TP(" "), TW(b)>>)

\* the event files searched: a meeting without a rule; a daily event whose
\* first occurrence is past and whose next one is not; a later event without
\* a calendar; an event whose only occurrence is past
SearchFiles ==
    <<WithFields(EventFile("s1", Word("u1"), Word("a1"), PyDt(600),
                           PyDt(660), None),
                 [calendar |-> Word("work"),
                  description |-> Phrase("Call", "Bob"),
                  location |-> Word("Office"),
                  tags |-> PyList(<<Word("urgent"), Word("work")>>),
                  notes |-> Phrase("Call", "Bob")]),
      WithFields(EventFile("s2", Word("u2"), Word("a2"), PyDt(300),
                           PyDt(360),
                           PyDict([freq |-> Word("DAILY"),
                                   count |-> PyInt(3)])),
                 [calendar |-> Word("personal"),
                  description |-> Word("homework"),
                  tags |-> PyList(<<Word("private")>>)]),
      WithFields(EventFile("s3", Word("u3"), Word("a3"), PyDt(3480),
                           PyDt(3510), None),
                 [description |-> Word("workshop"),
                  tags |-> PyList(<<Word("work")>>),
                  notes |-> Word("bobby")]),
      WithFields(EventFile("s4", Word("u4"), Word("a4"), PyDt(100),
                           PyDt(130),
                           PyDict([freq |-> Word("DAILY"),
                                   count |-> PyInt(1)])),
                 [calendar |-> Word("Work"), description |-> Word("old")])>>

\* the data directories searched
SearchStores ==
    {{SearchFiles[i] : i \in store} :
        store \in {{1, 2, 3}, {1, 2}, {2}, {4}, {1, 4}}}

\* the text "key=value"
Crit(key, val) == <<TW(key), TP("=")>> \o val

\* the search terms given: bare words, every field, tags with "+", the
\* four forms of a range, terms with an exclude half, terms that do not parse
SearchHalves ==
    {<<TW("any")>>, <<TW("Bob")>>, <<TW("work")>>,
     Crit("calendar", <<TW("work")>>),
     Crit("calendar", <<TW("work")>>) \o <<TP(",")>>
        \o Crit("tags", <<TW("urgent")>>),
     Crit("tags", <<TW("work"), TP("+"), TW("urgent")>>),
     Crit("tags", <<TW("urgent"), TP("+"), TW("private")>>),
     Crit("tags", <<TW("work")>>) \o <<TP(","), TP(" ")>>
        \o Crit("description", <<TW("work")>>),
     Crit("description", <<TW("Call"), TP(" "), TW("Bob")>>),
     Crit("notes", <<TW("Bob")>>),
     Crit("location", <<TW("off")>>),
     Crit("alias", <<TW("a1")>>),
     Crit("uid", <<TW("u2")>>),
     Crit("start", <<TP("~"), TD(1440)>>),
     Crit("start", <<TD(0), TP("~")>>),
     Crit("start", <<TD(2880), TP(" "), TP("~"), TP(" "), TD(4000)>>),
     Crit("start", <<TD(600)>>),
     Crit("start", <<TD(1440)>>),
     Crit("start", <<TD(0), TP("~"), TDS(1440, 30)>>),
     Crit("start", <<TW("soon")>>),
     Crit("end", <<TP("~"), TD(1440)>>),
     Crit("end", <<TD(360), TP("~"), TD(660)>>),
     Crit("weekend", <<TW("work")>>),
     Crit("calendar", <<TW("work")>>) \o <<TP(","), TW("urgent")>>}

ExcludeHalves ==
    {Crit("calendar", <<TW("personal")>>) \o <<TP(",")>>
        \o Crit("tags", <<TW("urgent")>>),
     Crit("tags", <<TW("work"), TP("+"), TW("private")>>),
     Crit("notes", <<TW("bob")>>),
     Crit("description", <<TW("bob")>>),
     Crit("location", <<TW("office")>>),
     Crit("calendar", <<TW("work")>>),
     Crit("alias", <<TW("a1")>>),
     Crit("uid", <<TW("u2")>>),
     Crit("start", <<TD(2880), TP("~"), TD(4000)>>),
     Crit("end", <<TP("~"), TD(1440)>>),
     <<TW("Bob")>>,
     Crit("calendar", <<TW("work")>>) \o <<TP(","), TW("urgent")>>}

SearchTerms ==
    {PyStr(h) : h \in SearchHalves}
    \cup {PyStr(<<TW("any"), TP("%")>> \o h) : h \in ExcludeHalves}
    \cup {PyStr(<<TP("%")>> \o Crit("calendar", <<TW("work")>>)),
          PyStr(Crit("calendar", <<TW("work")>>) \o <<TP("%")>>
                \o Crit("tags", <<TW("urgent")>>))}

\* the state after Events.__init__ on an empty directory, into which the
\* files of a store are then put
InitSearch ==
    /\ pc = "idle"
    /\ recurrence_limit = MaxRecurrenceLimit
    /\ first_weekday = 6
    /\ interactive \in BOOLEAN
    /\ now \in {2041, 2880}
    /\ rruleobj = None
    /\ dt_start = 0
    /\ past = TRUE
    /\ algorithmic = <<>>
    /\ recurrences = None
    /\ raised = ""
    /\ crashed = FALSE
    /\ files \in SearchStores
    /\ events = <<>>
    /\ master_view = <<>>
    /\ NoParse /\ NoSearch /\ NoShell
    /\ NoEdit

\* perform_search(term, recur): the list returned is this_events; a term that
\* does not parse ends the program (sys.exit) unless interactive, where
\* perform_search returns None
PerformSearch ==
    /\ pc = "idle"
    /\ \E t \in SearchTerms : \E r \in BOOLEAN :
         \E res \in {perform_search(t, r, master_view, events, now,
                                    recurrence_limit, first_weekday)} :
            /\ term' = t
            /\ recur' = r
            /\ this_events' = res.ret
            /\ raised' = IF res.exc = "invalid" THEN "" ELSE res.exc
            /\ pc' = IF res.exc = "" THEN "found"
                     ELSE IF res.exc # "invalid" THEN "raise"
                     ELSE IF interactive THEN "error" ELSE "exit"
    /\ UNCHANGED <<recurrence_limit, first_weekday, interactive, now,
                   rruleobj, dt_start, past, algorithmic, recurrences,
                   expression, rrule, files, events, master_view, crashed>>
    /\ UNCHANGED shellVars
    /\ UNCHANGED editVars

\* the caller of perform_search (search, query, export) uses what it was
\* given: "for entry in this_events" or "len(this_events)", a TypeError when
\* perform_search returned None (pc "error"), and is done with the list
\* otherwise
SearchReturn ==
    /\ pc \in {"found", "error"}
    /\ IF pc = "error"
       THEN /\ pc' = "raise"
            /\ raised' = "TypeError"
            /\ UNCHANGED searchVars
       ELSE /\ pc' = "idle"
            /\ term' = None /\ recur' = FALSE /\ this_events' = <<>>
            /\ UNCHANGED raised
    /\ UNCHANGED <<recurrence_limit, first_weekday, interactive, now,
                   rruleobj, dt_start, past, algorithmic, recurrences,
                   expression, rrule, files, events, master_view, crashed>>
    /\ UNCHANGED shellVars
    /\ UNCHANGED editVars

NextSearch == Refresh \/ PerformSearch \/ SearchReturn \/ Uncaught

SpecSearch == InitSearch /\ [][NextSearch]_vars

-----------------------------------------------------------------------------
(* Properties of the occurrences and of perform_search (checked under       *)
(* SpecSearch)                                                              *)

\* event.end - event.start of the event with the uid
DurationOf(uid) ==
    ParseEventEnd(EventOf(events, uid))
        - ParseEventStart(EventOf(events, uid), now)

\* C11: every occurrence in the master view, and every next occurrence that
\* calc_next_recurrence gives to perform_search, ends the duration of its
\* event (event.end - event.start) after it starts.
C11_DurationPreserved ==
    /\ \A i \in 1..Len(master_view) :
          master_view[i].end
              = master_view[i].start + DurationOf(master_view[i].uid)
    /\ (pc = "found" /\ ~recur)
          => \A i \in 1..Len(this_events) :
                this_events[i].start # NoTime
                   => this_events[i].end
                        = this_events[i].start
                            + DurationOf(this_events[i].uid)

\* C11, witness: a search without recur returned the next occurrence of a
\* recurring event, later than the event's own start, and the master view
\* holds two occurrences of that event.
C11_Witness ==
    /\ pc = "found" /\ ~recur
    /\ \E i \in 1..Len(this_events) :
          /\ Truthy(Get(EventOf(events, this_events[i].uid), "rrule"))
          /\ this_events[i].start
               > ParseEventStart(EventOf(events, this_events[i].uid), now)
          /\ \E j, k \in 1..Len(master_view) :
                /\ j < k
                /\ master_view[j].uid = this_events[i].uid
                /\ master_view[k].uid = this_events[i].uid
                /\ master_view[k] = this_events[i]

\* the two halves of the term as perform_search parsed them, the entries it
\* started from, and those left when the exclude loop was done
SearchDict == TermDict(SearchTerm(term), TRUE).d
ExcludeDict == TermDict(ExcludeTerm(term), FALSE).d
BaseEntries ==
    ThisEvents(recur, master_view, events, now, recurrence_limit,
               first_weekday).l
NotExcluded == AfterExclude(ExcludeDict, BaseEntries, events, recur, now)

\* the entry is in the list returned
Kept(e) == \E i \in 1..Len(this_events) : this_events[i] = e

\* the fields given in a half
GivenIn(d) == DOMAIN d.m \cap SearchCriteria

\* the term has a search half only, with just the fields of the set keys
SearchOnly(keys) ==
    /\ pc = "found" /\ ExcludeDict = None
    /\ Truthy(SearchDict) /\ DOMAIN SearchDict.m \subseteq keys

\* the term has an exclude half only, with just the fields of the set keys
ExcludeOnly(keys) ==
    /\ pc = "found" /\ SearchDict = None
    /\ Truthy(ExcludeDict) /\ DOMAIN ExcludeDict.m \subseteq keys

\* the tags of an event and the tags of a query value "a+b+..."
TagSet(ev) == IF Truthy(Get(ev, "tags")) THEN Elems(Get(ev, "tags").l) ELSE {}
QueryTags(val) == {PyStr(tag) : tag \in Elems(Split(val.l, "+"))}

\* the event has at least one of the tags of the value
HasAnyTag(val, ev) == TagSet(ev) \cap QueryTags(val) # {}

\* C14: a tags value matches an event if and only if the event has at least
\* one of its "+"-separated tags, in the search half (the entry is kept only
\* if it matches, and if tags is the only field it is kept exactly then) and
\* in the exclude half (a matching entry is dropped, and if tags is the only
\* field exactly the matching entries are dropped).
C14_TagsInnerOr ==
    /\ (pc = "found" /\ Truthy(Get(SearchDict, "tags")))
          => \A i \in 1..Len(NotExcluded) :
                /\ Kept(NotExcluded[i])
                     => HasAnyTag(Get(SearchDict, "tags"),
                                  EventOf(events, NotExcluded[i].uid))
                /\ DOMAIN SearchDict.m = {"tags"}
                     => (Kept(NotExcluded[i])
                          <=> HasAnyTag(Get(SearchDict, "tags"),
                                        EventOf(events, NotExcluded[i].uid)))
    /\ (pc = "found" /\ Truthy(Get(ExcludeDict, "tags")))
          => \A i \in 1..Len(BaseEntries) :
                /\ HasAnyTag(Get(ExcludeDict, "tags"),
                             EventOf(events, BaseEntries[i].uid))
                     => ~Kept(BaseEntries[i])
                /\ ExcludeOnly({"tags"})
                     => (Kept(BaseEntries[i])
                          <=> ~HasAnyTag(Get(ExcludeDict, "tags"),
                                         EventOf(events, BaseEntries[i].uid)))

\* C14, witness: a search for two tags kept an event that has only one of
\* them, or an exclusion of two tags dropped such an event.
C14_Witness ==
    /\ pc = "found"
    /\ \E i \in 1..Len(BaseEntries) :
          \/ /\ SearchOnly({"tags"})
             /\ Cardinality(QueryTags(Get(SearchDict, "tags"))) = 2
             /\ Kept(BaseEntries[i])
             /\ ~(QueryTags(Get(SearchDict, "tags"))
                    \subseteq TagSet(EventOf(events, BaseEntries[i].uid)))
          \/ /\ ExcludeOnly({"tags"})
             /\ Cardinality(QueryTags(Get(ExcludeDict, "tags"))) = 2
             /\ ~Kept(BaseEntries[i])
             /\ ~(QueryTags(Get(ExcludeDict, "tags"))
                    \subseteq TagSet(EventOf(events, BaseEntries[i].uid)))

\* the start or the end of an entry, in seconds
EntryTime(key, e) == 60 * (IF key = "start" THEN e.start ELSE e.end)

\* C15, as claimed: a start= or end= predicate is evaluated against the
\* entry of this_events: the next occurrence of the event (its own start and
\* end if it has no rule) without recur, the occurrence with recur.  Here for
\* a search half with these fields only: an entry is kept if and only if its
\* start and end lie in the ranges given.
C15_RangeAgainstNextOccurrence ==
    SearchOnly({"start", "end"})
        => \A i \in 1..Len(BaseEntries) :
              BaseEntries[i].start # NoTime
                 => (Kept(BaseEntries[i])
                      <=> \A key \in GivenIn(SearchDict) :
                             Within(ParseDtRange(SearchDict.m[key].l,
                                                 60 * now),
                                    EntryTime(key, BaseEntries[i])))

\* a bound is taken as the end of its day when it has no time of day
\* (00:00:00)
EndOfDayIfDateOnly(t) == IF t % 86400 = 0 THEN t + 86399 ELSE t

\* the value of a start= or end= has bounds that parse
BoundsParse(timestr) ==
    /\ RangeBegin(timestr).ok
    /\ RangeEnd(timestr, 60 * now).ok

\* the range a value denotes as claimed: "~X" is [origin, X], "X~" is
\* [X, now], "A~B" is [A, B] and "A" is [A, A], a date-only end bound being
\* the end of its day (and a bound that does not parse the origin or now)
ClaimedRange(timestr) ==
    [begin |-> IF RangeBegin(timestr).ok THEN RangeBegin(timestr).s
               ELSE Origin,
     end |-> IF \/ EndsWithChar(timestr, "~") /\ ~StartsWithChar(timestr, "~")
                \/ ~RangeEnd(timestr, 60 * now).ok
             THEN 60 * now
             ELSE EndOfDayIfDateOnly(RangeEnd(timestr, 60 * now).s)]

\* C16, as claimed: with recur, a search for a start= or end= range whose
\* bounds parse keeps an occurrence if and only if begin <= t <= end for the
\* range the value denotes.
C16_RangeForms ==
    (/\ recur /\ SearchOnly({"start", "end"})
     /\ \A key \in GivenIn(SearchDict) : BoundsParse(SearchDict.m[key].l))
        => \A i \in 1..Len(BaseEntries) :
              Kept(BaseEntries[i])
                 <=> \A key \in GivenIn(SearchDict) :
                        Within(ClaimedRange(SearchDict.m[key].l),
                               EntryTime(key, BaseEntries[i]))

\* the range of _parse_dt_range with the end bound widened exactly when its
\* time of day is 00:00:00
RangeWidenedAtMidnight(timestr) ==
    [begin |-> RangeBegin(timestr).s,
     end |-> EndOfDayIfDateOnly(RangeEnd(timestr, 60 * now).s)]

\* C17, as claimed: the end bound of a range is widened to 23:59:59 of its
\* day exactly when its time of day is 00:00:00, so that with recur a search
\* for a range keeps exactly the occurrences up to that bound.
C17_WidenedExactlyAtMidnight ==
    (recur /\ SearchOnly({"start", "end"}))
        => \A key \in GivenIn(SearchDict) :
              BoundsParse(SearchDict.m[key].l)
                 => /\ ParseDtRange(SearchDict.m[key].l, 60 * now)
                         = RangeWidenedAtMidnight(SearchDict.m[key].l)
                    /\ \A i \in 1..Len(BaseEntries) :
                          (GivenIn(SearchDict) = {key})
                             => (Kept(BaseEntries[i])
                                  <=> Within(RangeWidenedAtMidnight(
                                                SearchDict.m[key].l),
                                             EntryTime(key, BaseEntries[i])))

\* a text field of the event as parse_event gives it
EventText(key, ev) ==
    CASE key = "calendar" -> ParseEventCalendar(ev)
      [] key = "alias" -> ParseEventAlias(ev)
      [] OTHER -> Get(ev, key)

\* a text field matches as claimed: uid and alias by equality, calendar by
\* containment, description, location and notes by containment of the
\* lowercased value in the lowercased field
TextMatches(key, val, ev) ==
    CASE key \in {"uid", "alias"} -> val = EventText(key, ev)
      [] key = "calendar" -> InText(val.l, EventText(key, ev).l)
      [] OTHER -> /\ Truthy(EventText(key, ev))
                  /\ InText(Lower(val).l, Lower(EventText(key, ev)).l)

TextFields == {"uid", "alias", "calendar", "description", "location", "notes"}

\* C18, as claimed: in a half with text fields only, each of them matches as
\* TextMatches says: the search half keeps exactly the entries that match
\* every field, the exclude half drops exactly those that match some field.
C18_TextFieldsMatch ==
    /\ SearchOnly(TextFields)
          => \A i \in 1..Len(BaseEntries) :
                Kept(BaseEntries[i])
                   <=> \A key \in GivenIn(SearchDict) :
                          TextMatches(key, SearchDict.m[key],
                                      EventOf(events, BaseEntries[i].uid))
    /\ ExcludeOnly(TextFields)
          => \A i \in 1..Len(BaseEntries) :
                Kept(BaseEntries[i])
                   <=> ~\E key \in GivenIn(ExcludeDict) :
                          TextMatches(key, ExcludeDict.m[key],
                                      EventOf(events, BaseEntries[i].uid))

\* a field of a half matches an entry as claimed: tags by one of the tags,
\* start and end by the range against the entry, the others as texts
FieldMatches(key, val, e) ==
    CASE key = "tags" -> HasAnyTag(val, EventOf(events, e.uid))
      [] key \in {"start", "end"} ->
            Within(ClaimedRange(val.l), EntryTime(key, e))
      [] OTHER -> TextMatches(key, val, EventOf(events, e.uid))

\* C12, as claimed: the search half keeps an entry if and only if every
\* field given in it matches the entry.
C12_SearchIsAnd ==
    (pc = "found" /\ Truthy(SearchDict))
        => \A i \in 1..Len(NotExcluded) :
              NotExcluded[i].start # NoTime
                 => (Kept(NotExcluded[i])
                      <=> \A key \in GivenIn(SearchDict) :
                             FieldMatches(key, SearchDict.m[key],
                                          NotExcluded[i]))

\* C13, as claimed: the exclude half drops an entry if and only if at least
\* one field given in it matches the entry (terms whose search half keeps
\* everything).
C13_ExcludeIsOr ==
    (pc = "found" /\ Truthy(ExcludeDict) /\ SearchDict = None)
        => \A i \in 1..Len(BaseEntries) :
              BaseEntries[i].start # NoTime
                 => (~Kept(BaseEntries[i])
                      <=> \E key \in GivenIn(ExcludeDict) :
                             FieldMatches(key, ExcludeDict.m[key],
                                          BaseEntries[i]))

-----------------------------------------------------------------------------
(* The interactive shell: the thread of the command loop ("main") and the   *)
(* thread of the watchdog observer ("watch"), which calls                   *)
(* do_refresh("silent") for the changes of the data directory.  refresh()   *)
(* is followed statement by statement: _parse_files assigns self.events;    *)
(* _calc_master_view starts its loop over self.events, handles one event    *)
(* per step (parse_event reads self.events again) and assigns               *)
(* self.master_view when the loop is done.                                  *)

Threads == {"main", "watch"}

MaxQueue == 1      \* file system events waiting for the observer thread

\* the files that come and go while the shell runs: two events, and a file
\* with the uid of the first and another start
ShellFiles == {f \in EventFiles : f.path \in {"p1", "p2", "p7"}}

\* a thread outside refresh()
Resting(n) == [pc |-> "idle", keys |-> <<>>, view |-> <<>>, queue |-> n]

\* the keys of self.events, in the order of the dict
KeysOf(evs) == [i \in 1..Len(evs) |-> Get(evs[i], "uid")]

\* uid in self.events
HasEvent(evs, uid) == \E i \in 1..Len(evs) : Get(evs[i], "uid") = uid

\* _calc_master_view, one pass of "for entry in self.events:" for the key
\* uid: KeyError if self.events has lost the key since the loop began
LoopBody(evs, uid, t_now, limit, wkst) ==
    IF ~HasEvent(evs, uid) THEN [exc |-> "KeyError", l |-> <<>>]
    ELSE EventOccurrences(EventOf(evs, uid), t_now, limit, wkst)

\* self.master_view while the loop appends to unsorted_view, a list of its
\* own: the view is the list it was
ViewWhileBuilding_InPlace(view, unsorted) == unsorted

ViewWhileBuilding(view, unsorted) == view

\* the state after EventsShell.__init__ on an empty data directory
InitShell ==
    /\ pc = "idle"
    /\ recurrence_limit = MaxRecurrenceLimit
    /\ first_weekday = 6
    /\ interactive = TRUE
    /\ now = 2041
    /\ rruleobj = None
    /\ dt_start = 0
    /\ past = TRUE
    /\ algorithmic = <<>>
    /\ recurrences = None
    /\ raised = ""
    /\ crashed = FALSE
    /\ NoParse /\ NoStore /\ NoSearch
    /\ threads = [t \in Threads |-> Resting(0)]
    /\ observed = [view |-> <<>>, complete |-> <<>>]
    /\ complete_view = <<>>
    /\ NoEdit

\* a file is written to or removed from the data directory: the observer
\* queues the event for on_any_event
ShellFileChange ==
    /\ pc = "idle"
    /\ threads["watch"].pc # "dead"
    /\ threads["watch"].queue < MaxQueue
    /\ \/ /\ Cardinality(files) < MaxFiles
          /\ \E f \in ShellFiles \ files : files' = files \cup {f}
       \/ \E f \in files : files' = files \ {f}
    /\ threads' = [threads EXCEPT !["watch"].queue = @ + 1]
    /\ UNCHANGED <<pc, recurrence_limit, first_weekday, interactive, now,
                   rruleobj, dt_start, past, algorithmic, recurrences,
                   expression, rrule, raised, events, master_view, crashed>>
    /\ UNCHANGED <<searchVars, observed, complete_view>>
    /\ UNCHANGED editVars

\* refresh() is entered: by a command of the shell (do_refresh, attend,
\* edit_config) in the main thread, by on_any_event in the observer thread
EnterRefresh(t) ==
    /\ pc = "idle"
    /\ threads[t].pc = "idle"
    /\ t = "watch" => threads[t].queue > 0
    /\ threads' = [threads EXCEPT
                     ![t].pc = "refresh",
                     ![t].queue = IF t = "watch" THEN @ - 1 ELSE @]
    /\ UNCHANGED <<pc, recurrence_limit, first_weekday, interactive, now,
                   rruleobj, dt_start, past, algorithmic, recurrences,
                   expression, rrule, raised, files, events, master_view,
                   crashed>>
    /\ UNCHANGED <<searchVars, observed, complete_view>>
    /\ UNCHANGED editVars

\* refresh(), "self._parse_files()"
RefreshParseFiles(t) ==
    /\ pc = "idle"
    /\ threads[t].pc = "refresh"
    /\ \E order \in Orders(files) :
         events' = ParseFiles(order, [events |-> <<>>, uids |-> {},
                                      aliases |-> {}])
    /\ threads' = [threads EXCEPT ![t].pc = "parsed"]
    /\ UNCHANGED <<pc, recurrence_limit, first_weekday, interactive, now,
                   rruleobj, dt_start, past, algorithmic, recurrences,
                   expression, rrule, raised, files, master_view, crashed>>
    /\ UNCHANGED <<searchVars, observed, complete_view>>
    /\ UNCHANGED editVars

\* _calc_master_view, "unsorted_view = []" and "for entry in self.events:"
\* reaching the dict
LoopStart(t) ==
    /\ pc = "idle"
    /\ threads[t].pc = "parsed"
    /\ threads' = [threads EXCEPT ![t].pc = "loop",
                                  ![t].keys = KeysOf(events),
                                  ![t].view = <<>>]
    /\ UNCHANGED <<pc, recurrence_limit, first_weekday, interactive, now,
                   rruleobj, dt_start, past, algorithmic, recurrences,
                   expression, rrule, raised, files, events, master_view,
                   crashed>>
    /\ UNCHANGED <<searchVars, observed, complete_view>>
    /\ UNCHANGED editVars

\* _calc_master_view, one pass of the loop; an exception ends the process
\* from the main thread and ends the observer thread from on_any_event
LoopStep(t) ==
    /\ pc = "idle"
    /\ threads[t].pc = "loop" /\ threads[t].keys # <<>>
    /\ \E r \in {LoopBody(events, Head(threads[t].keys), now,
                          recurrence_limit, first_weekday)} :
         IF r.exc # ""
         THEN /\ threads' = [threads EXCEPT
                               ![t] = IF t = "main" THEN Resting(0)
                                      ELSE [Resting(0) EXCEPT !.pc = "dead"]]
              /\ pc' = IF t = "main" THEN "raise" ELSE pc
              /\ raised' = IF t = "main" THEN r.exc ELSE raised
              /\ UNCHANGED master_view
         ELSE /\ threads' = [threads EXCEPT
                               ![t].keys = Tail(@),
                               ![t].view = @ \o r.l]
              /\ master_view'
                   = ViewWhileBuilding(master_view, threads[t].view \o r.l)
              /\ UNCHANGED <<pc, raised>>
    /\ UNCHANGED <<recurrence_limit, first_weekday, interactive, now,
                   rruleobj, dt_start, past, algorithmic, recurrences,
                   expression, rrule, files, events, crashed>>
    /\ UNCHANGED <<searchVars, observed, complete_view>>
    /\ UNCHANGED editVars

\* _calc_master_view, "self.master_view = sorted(unsorted_view, ...)"
Swap(t) ==
    /\ pc = "idle"
    /\ threads[t].pc = "loop" /\ threads[t].keys = <<>>
    /\ master_view' = SortedByStart(threads[t].view)
    /\ complete_view' = SortedByStart(threads[t].view)
    /\ threads' = [threads EXCEPT ![t] = Resting(threads[t].queue)]
    /\ UNCHANGED <<pc, recurrence_limit, first_weekday, interactive, now,
                   rruleobj, dt_start, past, algorithmic, recurrences,
                   expression, rrule, raised, files, events, crashed>>
    /\ UNCHANGED <<searchVars, observed>>
    /\ UNCHANGED editVars

\* a command of the shell reads the master view ("for entry in
\* self.master_view:"); complete is the list the last finished rebuild
\* assigned
ReadMasterView ==
    /\ pc = "idle"
    /\ threads["main"].pc = "idle"
    /\ observed' = [view |-> master_view, complete |-> complete_view]
    /\ UNCHANGED <<pc, recurrence_limit, first_weekday, interactive, now,
                   rruleobj, dt_start, past, algorithmic, recurrences,
                   expression, rrule, raised, files, events, master_view,
                   crashed>>
    /\ UNCHANGED <<searchVars, threads, complete_view>>
    /\ UNCHANGED editVars

NextShell ==
    \/ ShellFileChange
    \/ \E t \in Threads : EnterRefresh(t)
    \/ \E t \in Threads : RefreshParseFiles(t)
    \/ \E t \in Threads : LoopStart(t)
    \/ \E t \in Threads : LoopStep(t)
    \/ \E t \in Threads : Swap(t)
    \/ ReadMasterView
    \/ Uncaught

SpecShell == InitShell /\ [][NextShell]_vars

-----------------------------------------------------------------------------
(* Properties of refresh() in the shell (checked under SpecShell) *)

\* the threads inside refresh()
Refreshing == {t \in Threads : threads[t].pc \in {"refresh", "parsed", "loop"}}

\* C19: the master view is only ever replaced by a list that
\* _calc_master_view has finished: at every moment, and so for every command
\* that reads it while a refresh runs, self.master_view is the list the last
\* finished rebuild assigned, never the list a rebuild is still appending to.
C19_ReadersSeeCompleteView ==
    /\ master_view = complete_view
    /\ observed.view = observed.complete

\* C19, witness: a refresh by the observer thread is in its loop with part
\* of a new view built and events left to handle, and a command has read the
\* master view of the earlier rebuild, which is not empty.
C19_Witness ==
    /\ threads["watch"].pc = "loop"
    /\ threads["watch"].keys # <<>>
    /\ threads["watch"].view # <<>>
    /\ threads["watch"].view # master_view
    /\ observed.view # <<>>
    /\ observed.view = master_view

\* C20, as claimed: at most one execution of refresh() is in progress at any
\* time.
C20_OneRefreshAtATime == Cardinality(Refreshing) <= 1


-----------------------------------------------------------------------------
(* Malformed search terms (checked under SpecSearch)                        *)

\* the half contains a recognized field token but its items do not split
\* into field=value pairs
MalformedHalf(toks) ==
    /\ toks # <<>>
    /\ AnySearchCriterion(toks)
    /\ \E i \in 1..Len(Split(toks, ",")) :
          Len(Split(Split(toks, ",")[i], "=")) # 2

\* the term given to the operation has a malformed half
MalformedTerm ==
    /\ term # None
    /\ \/ MalformedHalf(SearchTerm(term))
       \/ MalformedHalf(ExcludeTerm(term))

\* C21: a term with a malformed half fails the whole query: the one-shot
\* invocation reports the error and exits (not through a traceback); in the
\* interactive context the operation is abandoned, no exception is raised to
\* the caller and the process goes on.
C21_MalformedFailsQuery ==
    MalformedTerm =>
        /\ ~crashed
        /\ raised = ""
        /\ pc = (IF interactive THEN "error" ELSE "exit")


-----------------------------------------------------------------------------
(* The entries of a search without recur (checked under SpecSearch)         *)

\* C29: perform_search with recur=False completes with a list whatever the
\* events are, and no entry of it has a null start or end: the sort by
\* start never meets an entry without a start.
C29_NextEntriesHaveTimes ==
    (term # None /\ ~recur /\ ~MalformedTerm) =>
        /\ pc = "found"
        /\ \A i \in 1..Len(this_events) :
              this_events[i].start # NoTime /\ this_events[i].end # NoTime


-----------------------------------------------------------------------------
(* The master view and the event map during refresh() (checked under        *)
(* SpecShell)                                                               *)

\* C27: at every point of a refresh, between the two assignments too, every
\* uid of the master view is a key of self.events, so parse_event finds the
\* event of every entry a reader takes from the master view.
C27_ViewUidsAreKeys ==
    \A i \in 1..Len(master_view) : HasEvent(events, master_view[i].uid)


-----------------------------------------------------------------------------
(* The occurrences that are not past (checked under SpecRecur)              *)

\* the full sorted expansion of the rule of the state: the expansion of its
\* frequency with the date entries merged and the except entries removed
FullExpansion ==
    CalcAllRecurrences(
        rr_rrule(RRuleArgs(rruleobj, dt_start, recurrence_limit,
                           first_weekday)),
        rruleobj, TRUE, now)

\* the entries of the full expansion that are not strictly before now
NotBeforeNow == SelectSeq(FullExpansion.ret.l, LAMBDA t : ~(t < now))

\* what calc_next_recurrence makes of the list returned, for an event that
\* lasts the default duration
NextOfReturned ==
    NextRecurrenceOf([exc |-> "", ret |-> recurrences], dt_start,
                     dt_start + DEFAULT_DURATION)

\* C25: with past=False the list returned for a rule with a frequency is
\* exactly the entries of the full sorted expansion that are not strictly
\* before now; calc_next_recurrence gives the earliest of them as
\* next_start, and (null, null) when there is none or the rule has no freq.
C25_NextIsEarliestNotPast ==
    (Returned /\ ~past) =>
        /\ (ValidFreq /\ FullExpansion.exc = "") =>
              /\ IsList
              /\ recurrences.l = NotBeforeNow
              /\ NextOfReturned.start
                    = (IF NotBeforeNow = <<>> THEN NoTime
                       ELSE CHOOSE t \in Elems(NotBeforeNow) :
                              \A u \in Elems(NotBeforeNow) : t <= u)
        /\ ~FreqSet =>
              NextOfReturned.start = NoTime /\ NextOfReturned.end = NoTime


-----------------------------------------------------------------------------
(* The event map of _parse_files (checked under Spec)                       *)

\* C23: no two events of the event map share a uid, and no two have aliases
\* that are equal when compared without regard to case: a file that collides
\* with an event already loaded is skipped.
C23_UniqueUidAndAlias ==
    \A i, j \in 1..Len(events) :
        i # j => /\ Get(events[i], "uid") # Get(events[j], "uid")
                 /\ Lower(Get(events[i], "alias"))
                      # Lower(Get(events[j], "alias"))


-----------------------------------------------------------------------------
(* Events.modify._remove_items: the deletion by index that modify uses for  *)
(* reminders, attendees and attachments.  Init draws the two arguments, the *)
(* action calls the function.                                               *)

MaxDeletions == 2    \* indexes in a deletions list
MaxSource == 3       \* elements in a source list

\* "for entry in deletions: ... rem_items.append(source[entry])": the
\* elements at the indexes that int() accepts and that lie in
\* 1..len(source), one for every such entry of deletions
RECURSIVE RemItems(_, _)
RemItems(dels, src) ==
    IF dels = <<>> THEN <<>>
    ELSE IF /\ IntegerOrDefault(Head(dels)) # None
            /\ 1 <= IntegerOrDefault(Head(dels)).n
            /\ IntegerOrDefault(Head(dels)).n <= Len(src)
    THEN <<src[IntegerOrDefault(Head(dels)).n]>> \o RemItems(Tail(dels), src)
    ELSE RemItems(Tail(dels), src)

\* "for item in rem_items: source.remove(item)": list.remove takes out the
\* first element equal to item and raises ValueError when there is none
RECURSIVE RemoveEachItem(_, _)
RemoveEachItem(items, src) ==
    IF items = <<>> THEN [exc |-> "", ret |-> src]
    ELSE IF Head(items) \notin Elems(src)
    THEN [exc |-> "ValueError", ret |-> src]
    ELSE RemoveEachItem(Tail(items), RemoveFirst(src, Head(items)))

\* _remove_items(deletions, source)
RemoveItems(dels, src) == RemoveEachItem(RemItems(dels, src), src)

SeqsUpTo(S, n) == UNION {[1..k -> S] : k \in 0..n}

\* indexes as the command line gives them: texts of integers, in and out of
\* range, and a text that is no integer
IndexTexts == {PyStr(<<TN(0)>>), PyStr(<<TN(1)>>), PyStr(<<TN(2)>>),
               PyStr(<<TN(3)>>), PyStr(<<TN(9)>>), Word("x")}

\* the elements of a source list
Items == {Word("a"), Word("b")}

InitRemove ==
    /\ pc = "call"
    /\ recurrence_limit = MaxRecurrenceLimit
    /\ first_weekday = 6
    /\ interactive = FALSE
    /\ now = 2041
    /\ rruleobj = None
    /\ dt_start = 0
    /\ past = TRUE
    /\ algorithmic = <<>>
    /\ recurrences = None
    /\ raised = ""
    /\ crashed = FALSE
    /\ NoParse /\ NoStore /\ NoSearch /\ NoShell
    /\ default_duration = DEFAULT_DURATION
    /\ edit = <<>>
    /\ deletions \in SeqsUpTo(IndexTexts, MaxDeletions)
    /\ source \in SeqsUpTo(Items, MaxSource)
    /\ returned = <<>>

\* modify, "u_attendees = _remove_items(del_attendee, u_attendees)", which
\* modify guards with "if del_attendee and u_attendees"; source stays the
\* list as it was given, returned is the list afterwards
CallRemoveItems ==
    /\ pc = "call"
    /\ deletions # <<>> /\ source # <<>>
    /\ \E r \in {RemoveItems(deletions, source)} :
          /\ pc' = IF r.exc = "" THEN "return" ELSE "raise"
          /\ raised' = r.exc
          /\ returned' = r.ret
    /\ UNCHANGED <<recurrence_limit, first_weekday, interactive, now,
                   rruleobj, dt_start, past, algorithmic, recurrences,
                   expression, rrule, files, events, master_view, crashed>>
    /\ UNCHANGED <<searchVars, shellVars>>
    /\ UNCHANGED <<default_duration, edit, deletions, source>>

NextRemove == CallRemoveItems \/ Uncaught

SpecRemove == InitRemove /\ [][NextRemove]_vars

-----------------------------------------------------------------------------
(* Properties of _remove_items (checked under SpecRemove)                   *)

\* the 1-based positions that deletions lists: its integers within the list
ListedPositions ==
    {n \in 1..Len(source) :
        \E i \in 1..Len(deletions) :
            /\ IntegerOrDefault(deletions[i]) # None
            /\ IntegerOrDefault(deletions[i]).n = n}

RECURSIVE WithoutPositions(_, _, _)
\* the elements of src from position n on that are not at a position of P
WithoutPositions(src, n, P) ==
    IF n > Len(src) THEN <<>>
    ELSE (IF n \in P THEN <<>> ELSE <<src[n]>>)
         \o WithoutPositions(src, n + 1, P)

\* C30: _remove_items returns the list without exactly the elements at the
\* 1-based positions listed in deletions (non-integer and out-of-range
\* indexes ignored), the others in their original order, also with equal
\* elements in the list and with an index listed more than once.
C30_RemovesListedPositions ==
    pc # "call" =>
        /\ pc = "return"
        /\ returned = WithoutPositions(source, 1, ListedPositions)


-----------------------------------------------------------------------------
(* Events.new, Events.modify and Events.unset.  The texts of durations are  *)
(* integer literals followed by the words d, h and m; dateutil's parser is  *)
(* taken to accept the datetime literals only.                              *)

\* the keys of the record that new and modify write, in their order
EventKeys == {"uid", "created", "updated", "alias", "calendar",
              "description", "location", "tags", "start", "end",
              "reminders", "rrule", "organizer", "attendees", "attachments",
              "notes"}

\* parse_event(uid) for the stored event ev: exc is "AttributeError" when
\* the end failsafe is reached, ret the dict returned
ParseEventFields(ev, t_now) ==
    [uid |-> Get(ev, "uid"),
     created |-> IF Truthy(Get(ev, "created"))
                 THEN DatetimeOrNone(Get(ev, "created"))
                 ELSE Get(ev, "created"),
     updated |-> IF Truthy(Get(ev, "updated"))
                 THEN DatetimeOrNone(Get(ev, "updated"))
                 ELSE Get(ev, "updated"),
     alias |-> ParseEventAlias(ev),
     calendar |-> ParseEventCalendar(ev),
     rrule |-> Get(ev, "rrule"),
     start |-> PyDt(ParseEventStart(ev, t_now)),
     end |-> DatetimeOrNone(Get(ev, "end")),
     description |-> Get(ev, "description"),
     location |-> Get(ev, "location"),
     tags |-> Get(ev, "tags"),
     reminders |-> Get(ev, "reminders"),
     organizer |-> Get(ev, "organizer"),
     attendees |-> Get(ev, "attendees"),
     attachments |-> Get(ev, "attachments"),
     notes |-> Get(ev, "notes")]

parse_event(ev, t_now) ==
    IF ParseEventEndFails(ev) THEN [exc |-> "AttributeError", ret |-> None]
    ELSE [exc |-> "", ret |-> PyDict(ParseEventFields(ev, t_now))]

\* _uid_from_alias(alias): the key of the last event of self.events whose
\* alias, as stored, equals the lowercased argument; None without one
RECURSIVE UidFromAlias(_, _, _)
UidFromAlias(evs, alias, found) ==
    IF evs = <<>> THEN found
    ELSE UidFromAlias(Tail(evs), alias,
                      IF /\ Truthy(Get(Head(evs), "alias"))
                         /\ Get(Head(evs), "alias") = Lower(alias)
                      THEN Get(Head(evs), "uid") ELSE found)

\* re.search(r"\d+u", expression): the integer of the first literal that the
\* unit u follows, 0 without one
UnitOf(toks, u) ==
    IF \E i \in 1..(Len(toks) - 1) : toks[i].k = "n" /\ toks[i + 1] = TW(u)
    THEN toks[CHOOSE i \in 1..(Len(toks) - 1) :
                /\ toks[i].k = "n" /\ toks[i + 1] = TW(u)
                /\ \A j \in 1..(i - 1) :
                      ~(toks[j].k = "n" /\ toks[j + 1] = TW(u))].n
    ELSE 0

\* the days, hours and minutes of an expression, in minutes
ExpressionMinutes(toks) ==
    UnitOf(toks, "d") * 1440 + UnitOf(toks, "h") * 60 + UnitOf(toks, "m")

\* _calc_duration(expression), in minutes: the default duration for an
\* expression that amounts to nothing
CalcDuration(toks, dd) ==
    IF ExpressionMinutes(Lower(PyStr(toks)).l) = 0 THEN dd
    ELSE ExpressionMinutes(Lower(PyStr(toks)).l)

\* _calc_end_dt(dt_start, end): the datetime that end is, else dt_start
\* moved by the expression ("+" removed when end starts with it)
CalcEndDt(t_start, end, dd) ==
    IF Truthy(DatetimeOrNone(end)) THEN DatetimeOrNone(end).n
    ELSE IF StartsWithChar(end.l, "+")
    THEN t_start + CalcDuration(RemoveChar(end.l, "+"), dd)
    ELSE t_start + CalcDuration(end.l, dd)

\* _validate_start_end
ValidateStartEnd(t_start, t_end) == t_start < t_end


\* the order of the words that tags are made of, as str compares them
WordRank(w) ==
    CASE w = "alpha" -> 1 [] w = "beta" -> 2 [] w = "urgent" -> 3
      [] w = "work" -> 4 [] OTHER -> 5

\* list.sort() of a list of tags (one word each)
RECURSIVE InsertTag(_, _)
InsertTag(l, x) ==
    IF l = <<>> THEN <<x>>
    ELSE IF WordRank(x.l[1].w) <= WordRank(Head(l).l[1].w) THEN <<x>> \o l
    ELSE <<Head(l)>> \o InsertTag(Tail(l), x)

RECURSIVE SortedTags(_)
SortedTags(l) ==
    IF l = <<>> THEN <<>> ELSE InsertTag(SortedTags(Tail(l)), Head(l))

\* text.split(','), as a list of strings
SplitTags(toks) == [i \in 1..Len(Split(toks, ",")) |-> PyStr(Split(toks, ",")[i])]

\* modify, "for new_tag in new_tags: if new_tag not in tags: tags.append"
RECURSIVE AppendNewTags(_, _)
AppendNewTags(tags, new_tags) ==
    IF new_tags = <<>> THEN tags
    ELSE AppendNewTags(IF Head(new_tags) \in Elems(tags) THEN tags
                       ELSE Append(tags, Head(new_tags)),
                       Tail(new_tags))

\* modify, "for new_tag in new_tags: if new_tag in tags: tags.remove"
RECURSIVE RemoveTags(_, _)
RemoveTags(tags, new_tags) ==
    IF new_tags = <<>> THEN tags
    ELSE RemoveTags(RemoveFirst(tags, Head(new_tags)), Tail(new_tags))

\* "if tags: tags.sort(); u_tags = tags else: u_tags = None"
SortedOrNone(tags) == IF tags = <<>> THEN None ELSE PyList(SortedTags(tags))

\* modify, u_tags from the lowercased new_tags (toks) and the event's tags
ModifyTagsOf(toks, evtags) ==
    IF StartsWithChar(toks, "+")
    THEN SortedOrNone(AppendNewTags(IF Truthy(evtags) THEN evtags.l ELSE <<>>,
                                    SplitTags(Tail(toks))))
    ELSE IF StartsWithChar(toks, "~")
    THEN (IF Truthy(evtags)
          THEN SortedOrNone(RemoveTags(evtags.l, SplitTags(Tail(toks))))
          ELSE None)
    ELSE PyList(SortedTags(SplitTags(toks)))

ModifyTags(new_tags, evtags) ==
    IF Truthy(new_tags) THEN ModifyTagsOf(Lower(new_tags).l, evtags)
    ELSE evtags

\* new and modify, the organizer dict of a list of one or two texts
OrganizerOf(org) ==
    IF Len(org.l) > 1
    THEN PyDict([name |-> org.l[1], email |-> org.l[2]])
    ELSE PyDict([name |-> None, email |-> org.l[1]])

\* new and modify, rem_data of one reminder given as a list of texts
ReminderOf(a_rem) ==
    IF Len(a_rem.l) = 2
    THEN PyDict([remind |-> a_rem.l[1],
                 notify |-> IF Lower(a_rem.l[2]) \in {Word("display"),
                                                      Word("email")}
                            THEN Lower(a_rem.l[2]) ELSE Word("display")])
    ELSE PyDict([remind |-> a_rem.l[1]])

\* modify, att_data of one attendee given as a list of texts
AttendeeOf(a_att) ==
    IF Len(a_att.l) = 3
    THEN PyDict([name |-> a_att.l[1], email |-> a_att.l[2],
                 status |-> Lower(a_att.l[3])])
    ELSE IF Len(a_att.l) >= 2
    THEN PyDict([name |-> a_att.l[1], email |-> a_att.l[2]])
    ELSE PyDict([name |-> a_att.l[1]])

\* the items that modify appends for the list adds: kind tells reminders
\* and attendees, which are built from the non-empty entries, from
\* attachments, which are appended as they are
BuiltItems(adds, kind) ==
    IF ~Truthy(adds) THEN <<>>
    ELSE IF kind = "attachments" THEN adds.l
    ELSE IF kind = "reminders"
    THEN [i \in 1..Len(SelectSeq(adds.l, LAMBDA e : Len(e.l) > 0)) |->
            ReminderOf(SelectSeq(adds.l, LAMBDA e : Len(e.l) > 0)[i])]
    ELSE [i \in 1..Len(SelectSeq(adds.l, LAMBDA e : Len(e.l) > 0)) |->
            AttendeeOf(SelectSeq(adds.l, LAMBDA e : Len(e.l) > 0)[i])]

\* "if del_x and u_x: u_x = _remove_items(del_x, u_x)" on the copy of the
\* event's list (the empty list when the event has none)
AfterDeletions(cur, dels) ==
    IF Truthy(dels) /\ Truthy(cur) THEN RemoveItems(dels.l, cur.l)
    ELSE [exc |-> "", ret |-> IF Truthy(cur) THEN cur.l ELSE <<>>]

AppendBuilt(r, built) ==
    IF r.exc # "" THEN [exc |-> r.exc, ret |-> None]
    ELSE [exc |-> "", ret |-> PyList(r.ret \o built)]

\* modify, u_reminders, u_attendees and u_attachments: the event's list
\* unless there is something to add or delete
ModifyList(cur, dels, adds, kind) ==
    IF Truthy(adds) \/ Truthy(dels)
    THEN AppendBuilt(AfterDeletions(cur, dels), BuiltItems(adds, kind))
    ELSE [exc |-> "", ret |-> cur]

\* modify, u_notes: a blank note clears the notes
ModifyNotes(new_notes, evnotes) ==
    IF ~Truthy(new_notes) THEN evnotes
    ELSE IF new_notes = PyStr(<<TP(" ")>>) THEN None
    ELSE new_notes

\* new_x or event['x']
OrElse(v, w) == IF Truthy(v) THEN v ELSE w

\* modify, u_start and u_end: ok is FALSE when _validate_start_end fails
TimesOfBoth(t_start, end, dd) ==
    [ok |-> ValidateStartEnd(t_start, CalcEndDt(t_start, end, dd)),
     start |-> t_start, end |-> CalcEndDt(t_start, end, dd)]

ModifyTimes(new_start, new_end, event, dd) ==
    IF Truthy(new_start) /\ Truthy(new_end)
    THEN TimesOfBoth(OrElse(DatetimeOrNone(new_start),
                            Get(event, "start")).n, new_end, dd)
    ELSE IF Truthy(new_start)
    THEN (IF Truthy(DatetimeOrNone(new_start))
          THEN [ok |-> TRUE, start |-> DatetimeOrNone(new_start).n,
                end |-> DatetimeOrNone(new_start).n
                          + (Get(event, "end").n - Get(event, "start").n)]
          ELSE [ok |-> TRUE, start |-> Get(event, "start").n,
                end |-> Get(event, "end").n])
    ELSE IF Truthy(new_end)
    THEN TimesOfBoth(Get(event, "start").n, new_end, dd)
    ELSE [ok |-> TRUE, start |-> Get(event, "start").n,
          end |-> Get(event, "end").n]


\* the arguments of new, modify and unset that are not given
NoArgs(keys) == [x \in keys |-> None]

\* arguments: the ones given on top of the ones that are not
WithArgs(keys, given) ==
    [x \in keys |-> IF x \in DOMAIN given THEN given[x] ELSE None]

NewKeys == {"calendar", "description", "location", "tags", "start", "end",
            "reminders", "rrule", "organizer", "attendees", "attachments",
            "notes"}

ModifyKeys == {"alias", "new_calendar", "new_description", "new_location",
               "new_tags", "new_start", "new_end", "new_rrule",
               "new_organizer", "add_reminder", "del_reminder",
               "add_attendee", "del_attendee", "add_attachment",
               "del_attachment", "new_notes"}

\* new, att_data of one attendee given as a list of texts
NewAttendeeOf(e) ==
    IF Len(e.l) = 1 THEN PyDict([email |-> e.l[1]])
    ELSE IF Len(e.l) = 2
    THEN PyDict([email |-> e.l[1], status |-> Lower(e.l[2])])
    ELSE PyDict([name |-> e.l[1], email |-> e.l[2],
                 status |-> Lower(e.l[3])])

\* new, new_attendees: the non-empty entries but the organizer
NewAttendeesOf(entries, exclude_attend) ==
    PyList(SelectSeq([i \in 1..Len(entries) |-> NewAttendeeOf(entries[i])],
                     LAMBDA d : Get(d, "email") # exclude_attend))

NewAttendees(attendees, organizer) ==
    IF ~Truthy(attendees) THEN None
    ELSE NewAttendeesOf(SelectSeq(attendees.l, LAMBDA e : Len(e.l) > 0),
                        IF Truthy(organizer)
                        THEN Get(OrganizerOf(organizer), "email") ELSE None)

\* new, "if end: dt_end = self._calc_end_dt(dt_start, end)" and the default
\* event duration without an end
NewEnd(t_start, end, dd) ==
    IF Truthy(end) THEN CalcEndDt(t_start, end, dd) ELSE t_start + dd

\* new, the record written for the arguments a once start, end and rrule
\* are there
NewData(a, uid, alias, t_now, t_start, t_end, new_rrule) ==
    PyDict([uid |-> uid,
            created |-> PyDt(t_now),
            updated |-> PyDt(t_now),
            alias |-> alias,
            calendar |-> Lower(OrElse(a.calendar, Word("default"))),
            description |-> OrElse(a.description, Phrase("New", "event")),
            location |-> a.location,
            tags |-> IF Truthy(a.tags)
                     THEN PyList(SortedTags(SplitTags(Lower(a.tags).l)))
                     ELSE a.tags,
            start |-> PyDt(t_start),
            end |-> PyDt(t_end),
            reminders |-> IF Truthy(a.reminders)
                          THEN PyList(BuiltItems(a.reminders, "reminders"))
                          ELSE None,
            rrule |-> new_rrule,
            organizer |-> IF Truthy(a.organizer) THEN OrganizerOf(a.organizer)
                          ELSE None,
            attendees |-> NewAttendees(a.attendees, a.organizer),
            attachments |-> a.attachments,
            notes |-> a.notes])

\* the outcome of an operation: kind is "write" with the record data for
\* the file path, "invalid" for an error that is reported (_error_pass or
\* _error_exit), "raise" with the exception exc, "none" when nothing is
\* done
Outcome(kind, exc, path, data) ==
    [kind |-> kind, exc |-> exc, path |-> path, data |-> data]

\* new from "if rrule:" on
NewOf(a, uid, alias, t_now, t_start, t_end, r) ==
    IF r.exc # "" THEN Outcome("raise", r.exc, "", None)
    ELSE Outcome("write", "", uid.l[1].w,
                 NewData(a, uid, alias, t_now, t_start, t_end, r.ret))

\* new from "if end:" on, with the start datetime
NewFrom(a, uid, alias, t_now, t_start, dd) ==
    IF Truthy(a.end)
       /\ ~ValidateStartEnd(t_start, CalcEndDt(t_start, a.end, dd))
    THEN Outcome("invalid", "", "", None)
    ELSE NewOf(a, uid, alias, t_now, t_start, NewEnd(t_start, a.end, dd),
               IF Truthy(a.rrule) THEN parse_rrule(a.rrule)
               ELSE [exc |-> "", ret |-> None])

\* new(...): dt_start is bound only "if start:", so that "if not dt_start"
\* raises UnboundLocalError without a start
new(a, uid, alias, t_now, dd) ==
    IF ~Truthy(a.start) THEN Outcome("raise", "UnboundLocalError", "", None)
    ELSE IF ~Truthy(DatetimeOrNone(a.start))
    THEN Outcome("invalid", "", "", None)
    ELSE NewFrom(a, uid, alias, t_now, DatetimeOrNone(a.start).n, dd)

\* self.event_files.get(uid): the file the event was read from
FileOf(fs, uid) == CHOOSE f \in fs : Get(f.data, "uid") = uid

\* the record written with created stamped as updated is
ModifyData_CreatedNow(a, uid, event, t_now, times, u) ==
    PyDict([uid |-> uid,
            created |-> PyDt(t_now),
            updated |-> PyDt(t_now),
            alias |-> Lower(a.alias),
            calendar |-> OrElse(a.new_calendar, Get(event, "calendar")),
            description |-> OrElse(a.new_description,
                                   Get(event, "description")),
            location |-> OrElse(a.new_location, Get(event, "location")),
            tags |-> ModifyTags(a.new_tags, Get(event, "tags")),
            start |-> PyDt(times.start),
            end |-> PyDt(times.end),
            reminders |-> u.reminders,
            rrule |-> u.rrule,
            organizer |-> IF Truthy(a.new_organizer)
                          THEN OrganizerOf(a.new_organizer)
                          ELSE Get(event, "organizer"),
            attendees |-> u.attendees,
            attachments |-> u.attachments,
            notes |-> ModifyNotes(a.new_notes, Get(event, "notes"))])

\* modify, "data = {...}": the record written, u the updated rule and lists
ModifyData(a, uid, event, t_now, times, u) ==
    PyDict([uid |-> uid,
            created |-> Get(event, "created"),
            updated |-> PyDt(t_now),
            alias |-> Lower(a.alias),
            calendar |-> OrElse(a.new_calendar, Get(event, "calendar")),
            description |-> OrElse(a.new_description,
                                   Get(event, "description")),
            location |-> OrElse(a.new_location, Get(event, "location")),
            tags |-> ModifyTags(a.new_tags, Get(event, "tags")),
            start |-> PyDt(times.start),
            end |-> PyDt(times.end),
            reminders |-> u.reminders,
            rrule |-> u.rrule,
            organizer |-> IF Truthy(a.new_organizer)
                          THEN OrganizerOf(a.new_organizer)
                          ELSE Get(event, "organizer"),
            attendees |-> u.attendees,
            attachments |-> u.attachments,
            notes |-> ModifyNotes(a.new_notes, Get(event, "notes"))])

\* modify from "if new_rrule:" on: the rule and the three lists in the
\* order the code makes them, the first exception leaving modify
ModifyOf(a, uid, path, event, t_now, times, r, rem, att, atc) ==
    IF r.exc # "" THEN Outcome("raise", r.exc, "", None)
    ELSE IF rem.exc # "" THEN Outcome("raise", rem.exc, "", None)
    ELSE IF att.exc # "" THEN Outcome("raise", att.exc, "", None)
    ELSE IF atc.exc # "" THEN Outcome("raise", atc.exc, "", None)
    ELSE Outcome("write", "", path,
                 ModifyData(a, uid, event, t_now, times,
                            [rrule |-> r.ret, reminders |-> rem.ret,
                             attendees |-> att.ret, attachments |-> atc.ret]))

\* modify from the start and end on, for the parsed event
ModifyFrom(a, uid, path, event, t_now, times) ==
    IF ~times.ok THEN Outcome("invalid", "", "", None)
    ELSE ModifyOf(a, uid, path, event, t_now, times,
                  IF Truthy(a.new_rrule) THEN parse_rrule(a.new_rrule)
                  ELSE [exc |-> "", ret |-> Get(event, "rrule")],
                  ModifyList(Get(event, "reminders"), a.del_reminder,
                             a.add_reminder, "reminders"),
                  ModifyList(Get(event, "attendees"), a.del_attendee,
                             a.add_attendee, "attendees"),
                  ModifyList(Get(event, "attachments"), a.del_attachment,
                             a.add_attachment, "attachments"))

\* modify for the uid found, pe the outcome of parse_event
ModifyFound(a, uid, fs, pe, t_now, dd) ==
    IF pe.exc # "" THEN Outcome("raise", pe.exc, "", None)
    ELSE ModifyFrom(a, uid, FileOf(fs, uid).path, pe.ret, t_now,
                    ModifyTimes(a.new_start, a.new_end, pe.ret, dd))

\* modify(alias, ...)
modify(a, evs, fs, t_now, dd) ==
    IF ~Truthy(UidFromAlias(evs, a.alias, None))
    THEN Outcome("invalid", "", "", None)
    ELSE ModifyFound(a, UidFromAlias(evs, a.alias, None), fs,
                     parse_event(EventOf(evs, UidFromAlias(evs, a.alias, None)),
                                 t_now),
                     t_now, dd)


\* allowed_fields of unset
AllowedFields == {"calendar", "location", "tags", "rrule", "reminders",
                  "organizer", "attendees", "attachments"}

\* field.lower(), as a key
FieldKey(field) == LowerWord(field.l[1].w)

\* unset, "data = {...}": the record written, which has no calendar
UnsetData(event) ==
    PyDict([x \in EventKeys \ {"calendar"} |-> Get(event, x)])

\* unset reaches "self.events[uid][field] = None" for the stored event
UnsetClears(stored, field) ==
    /\ FieldKey(field) \in AllowedFields
    /\ FieldKey(field) \in DOMAIN stored.m
    /\ Truthy(stored.m[FieldKey(field)])

\* unset from the assignment on, pe the outcome of parse_event on the
\* event without the field
UnsetOf(path, pe) ==
    IF pe.exc # "" THEN Outcome("raise", pe.exc, "", None)
    ELSE Outcome("write", "", path, UnsetData(pe.ret))

\* unset for the uid found: self.events[uid][field] raises KeyError when
\* the stored event has no such key
UnsetFound(stored, path, field, t_now) ==
    IF FieldKey(field) \notin AllowedFields
    THEN Outcome("invalid", "", "", None)
    ELSE IF FieldKey(field) \notin DOMAIN stored.m
    THEN Outcome("raise", "KeyError", "", None)
    ELSE IF ~Truthy(stored.m[FieldKey(field)])
    THEN Outcome("none", "", "", None)
    ELSE UnsetOf(path, parse_event(SetItem(stored, FieldKey(field), None),
                                   t_now))

\* unset(alias, field)
unset(alias, field, evs, fs, t_now) ==
    IF ~Truthy(UidFromAlias(evs, alias, None))
    THEN Outcome("invalid", "", "", None)
    ELSE UnsetFound(EventOf(evs, UidFromAlias(evs, alias, None)),
                    FileOf(fs, UidFromAlias(evs, alias, None)).path,
                    field, t_now)

\* self.events after unset(alias, field): the field of the event is None
\* from the assignment on
EventsAfterUnset(alias, field, evs) ==
    IF ~Truthy(UidFromAlias(evs, alias, None)) THEN evs
    ELSE [i \in 1..Len(evs) |->
            IF /\ Get(evs[i], "uid") = UidFromAlias(evs, alias, None)
               /\ UnsetClears(evs[i], field)
            THEN SetItem(evs[i], FieldKey(field), None)
            ELSE evs[i]]

\* _write_yaml_file(data, filename): the file holds the record (yaml.dump
\* and safe_load give back texts, lists, dicts, None and the instants of
\* datetimes as they were)
WriteYamlFile(fs, path, data) ==
    {f \in fs : f.path # path} \cup {[path |-> path, data |-> data]}


-----------------------------------------------------------------------------
(* Editing the store: events are created, modified and cleared of fields,  *)
(* each write followed by refresh(), each operation later than the last.    *)

MaxOps == 2      \* operations (new, modify, unset) in a behaviour
MaxNew == 1      \* events created by new in a behaviour

\* the store at the start: one event with every field, as new and modify
\* leave it (its two attachments are equal)
EditFiles ==
    {[path |-> "u1",
      data |-> PyDict([uid |-> Word("u1"), created |-> PyDt(0),
                       updated |-> PyDt(0), alias |-> Word("a1"),
                       calendar |-> Word("work"),
                       description |-> Phrase("Call", "Bob"),
                       location |-> Word("Office"),
                       tags |-> PyList(<<Word("urgent"), Word("work")>>),
                       start |-> PyDt(600), end |-> PyDt(660),
                       reminders |-> PyList(<<PyDict([remind |-> Word("start")])>>),
                       rrule |-> PyDict([freq |-> Word("DAILY"),
                                         count |-> PyInt(2)]),
                       organizer |-> PyDict([name |-> None,
                                             email |-> Word("ann")]),
                       attendees |-> PyList(<<PyDict([name |-> Word("bob")])>>),
                       attachments |-> PyList(<<Word("f1"), Word("f1")>>),
                       notes |-> Word("bobby")])]}

\* a text of one datetime literal
DtText(t) == PyStr(<<TD(t)>>)

\* the arguments new is called with: starts that are and are not a
\* datetime; no end, ends before, at and after the start, an expression, a
\* text that is neither; other fields
NewArgs ==
    {WithArgs(NewKeys, [start |-> DtText(3000), end |-> e]) :
        e \in {None, DtText(2000), DtText(3000), DtText(3090),
               PyStr(<<TP("+"), TN(1), TW("d")>>), Word("later")}}
    \cup {WithArgs(NewKeys, [start |-> Word("soon")]),
          WithArgs(NewKeys, [start |-> DtText(3000), calendar |-> Word("Work"),
                             tags |-> PyStr(<<TW("Beta"), TP(","),
                                              TW("alpha")>>),
                             organizer |-> PyList(<<Word("ann")>>),
                             attendees |-> PyList(<<PyList(<<Word("ann")>>),
                                                    PyList(<<Word("bob")>>)>>),
                             rrule |-> PyStr(<<TW("freq"), TP("="),
                                               TW("daily")>>)])}

\* the changes modify is called with: starts and ends that are and are not
\* accepted; tags added, removed and replaced; the other fields changed;
\* a position deleted twice
ModifyChanges ==
    {[new_start |-> DtText(5000)],
     [new_start |-> Word("soon")],
     [new_end |-> DtText(100)],
     [new_end |-> PyStr(<<TP("+"), TN(1), TW("d")>>)],
     [new_start |-> DtText(5000), new_end |-> DtText(4000)],
     [new_start |-> DtText(5000), new_end |-> DtText(5100)],
     [new_tags |-> PyStr(<<TP("+"), TW("Beta")>>),
      new_calendar |-> Word("Home"),
      new_notes |-> PyStr(<<TP(" ")>>), new_description |-> Word("standup")],
     [new_tags |-> PyStr(<<TP("~"), TW("work"), TP(","), TW("urgent")>>),
      del_attachment |-> PyList(<<PyStr(<<TN(2)>>)>>),
      add_attachment |-> PyList(<<Word("f2")>>),
      add_reminder |-> PyList(<<PyList(<<Word("end"), Word("EMAIL")>>)>>),
      add_attendee |-> PyList(<<PyList(<<Word("ann"), Word("ann"),
                                         Word("ACCEPTED")>>)>>)],
     [new_tags |-> Word("alpha"),
      new_rrule |-> PyStr(<<TW("freq"), TP("="), TW("weekly")>>),
      new_organizer |-> PyList(<<Word("bob"), Word("ann")>>)],
     [del_attendee |-> PyList(<<PyStr(<<TN(1)>>), PyStr(<<TN(1)>>)>>)]}

\* the aliases commands are given: of the first event (also in capitals)
\* and of the first event that new creates, of no event before that
Aliases == {Word("a1"), Word("A1"), Word("x1")}

ModifyArgs ==
    {WithArgs(ModifyKeys, [x \in DOMAIN c \cup {"alias"} |->
                             IF x = "alias" THEN al ELSE c[x]]) :
        c \in ModifyChanges, al \in Aliases}

\* the fields unset is called with: fields it clears (a text, a list, a
\* dict), one it refuses and one in capitals
UnsetFields ==
    {Word(x) : x \in {"calendar", "location", "tags", "rrule", "attachments",
                      "notes", "LOCATION"}}

\* what new, modify and unset did last: the operation op with its field,
\* at the time at, the outcome kind, the file path written and the record
\* before that the file held before; ops counts the operations, and born
\* holds uid, alias and created of every event as new wrote them
NoOperation(born) ==
    [op |-> "", field |-> "", at |-> 0, kind |-> "", path |-> "",
     before |-> None, ops |-> 0, born |-> born]

BornOf(f) ==
    [path |-> f.path, uid |-> Get(f.data, "uid"),
     alias |-> Get(f.data, "alias"), created |-> Get(f.data, "created")]

\* the record the file path holds, None without the file
Stored(fs, path) ==
    IF \E f \in fs : f.path = path
    THEN (CHOOSE f \in fs : f.path = path).data
    ELSE None

\* the state after Events.__init__, before the first refresh()
InitEdit ==
    /\ pc = "written"
    /\ recurrence_limit = MaxRecurrenceLimit
    /\ first_weekday = 6
    /\ interactive \in BOOLEAN
    /\ now = 2041
    /\ rruleobj = None
    /\ dt_start = 0
    /\ past = TRUE
    /\ algorithmic = <<>>
    /\ recurrences = None
    /\ raised = ""
    /\ crashed = FALSE
    /\ NoParse /\ NoSearch /\ NoShell
    /\ files = EditFiles
    /\ events = <<>>
    /\ master_view = <<>>
    /\ default_duration \in {DEFAULT_DURATION, 0}
    /\ edit = NoOperation({BornOf(f) : f \in EditFiles})
    /\ deletions = <<>> /\ source = <<>> /\ returned = <<>>

\* what an operation with the outcome o leaves behind: the file written,
\* self.events as mem, and the position: an error that is reported ends
\* the program (sys.exit) unless interactive; the next operation reads a
\* later time from the clock
Operation(o, op, field, mem) ==
    /\ files' = IF o.kind = "write" THEN WriteYamlFile(files, o.path, o.data)
                ELSE files
    /\ events' = mem
    /\ raised' = o.exc
    /\ pc' = CASE o.kind = "write" -> "written"
               [] o.kind = "raise" -> "raise"
               [] o.kind = "invalid" -> (IF interactive THEN "idle"
                                         ELSE "exit")
               [] OTHER -> "idle"
    /\ edit' = [edit EXCEPT
                  !.op = op, !.field = field, !.at = now, !.kind = o.kind,
                  !.path = o.path, !.before = Stored(files, o.path),
                  !.ops = @ + 1,
                  !.born = IF op = "new" /\ o.kind = "write"
                           THEN @ \cup {BornOf(o)} ELSE @]
    /\ now' = now + 1
    /\ UNCHANGED <<recurrence_limit, first_weekday, interactive,
                   rruleobj, dt_start, past, algorithmic, recurrences,
                   expression, rrule, master_view, crashed>>
    /\ UNCHANGED <<searchVars, shellVars>>
    /\ UNCHANGED <<default_duration, deletions, source, returned>>

\* the uids that uuid4 gives and the aliases that _gen_alias gives, in turn
NewUids == <<"v1", "v2", "v3", "v4">>
NewAliases == <<"x1", "x2", "x3", "x4">>

\* the events that new has created
Created == Cardinality(files) - Cardinality(EditFiles)

\* new(...): uuid4 gives a uid no event has, _gen_alias an alias no event
\* has
New ==
    /\ pc = "idle"
    /\ edit.ops < MaxOps
    /\ Created < MaxNew /\ Created < Len(NewUids)
    /\ \E a \in NewArgs :
          Operation(new(a, Word(NewUids[Created + 1]),
                        Word(NewAliases[Created + 1]), now, default_duration),
                    "new", "", events)

\* modify(alias, ...)
Modify ==
    /\ pc = "idle"
    /\ edit.ops < MaxOps
    /\ \E a \in ModifyArgs :
          Operation(modify(a, events, files, now, default_duration),
                    "modify", "", events)

\* unset(alias, field)
Unset ==
    /\ pc = "idle"
    /\ edit.ops < MaxOps
    /\ \E al \in Aliases : \E field \in UnsetFields :
          Operation(unset(al, field, events, files, now),
                    "unset", FieldKey(field),
                    EventsAfterUnset(al, field, events))

NextEdit == New \/ Modify \/ Unset \/ Refresh \/ Uncaught

SpecEdit == InitEdit /\ [][NextEdit]_vars


-----------------------------------------------------------------------------
(* Properties of new, modify and unset (checked under SpecEdit)             *)

\* the last operation wrote a record
Wrote(ops) == edit.op \in ops /\ edit.kind = "write"

\* the record that the last operation wrote
Written == Stored(files, edit.path)

\* C22: every modify and every unset that writes a record stamps it: the
\* updated value of the written record is the time of the operation.
C22_UpdatedStamped ==
    Wrote({"modify", "unset"}) => Get(Written, "updated") = PyDt(edit.at)


\* C24: the store starts with end after start in every event, and every
\* record that new and modify store keeps it so: an operation whose end
\* would not be after its start writes nothing.
C24_EndAfterStart ==
    \A f \in files : Get(f.data, "start").n < Get(f.data, "end").n


\* C26: whatever modify and unset do to an event, its stored record keeps
\* the uid, the alias and the created timestamp that new gave it.
C26_IdentityKept ==
    \A b \in edit.born :
        /\ Get(Stored(files, b.path), "uid") = b.uid
        /\ Get(Stored(files, b.path), "alias") = b.alias
        /\ Get(Stored(files, b.path), "created") = b.created

\* C26, witness: unset has rewritten, a minute later, the record that modify
\* had written before for the alias given in capitals or not.
C26_Witness ==
    /\ Wrote({"unset"})
    /\ edit.ops = 2
    /\ edit.at = 2042
    /\ Get(edit.before, "updated") = PyDt(2041)
    /\ Written # edit.before


\* the fields of an event other than its identity and its timestamps
OtherFields == EventKeys \ {"uid", "alias", "created", "updated"}

\* the event of the last operation as self.events holds it
Reloaded == EventOf(events, Get(edit.before, "uid"))

\* C28: after unset of an allowed field has written and refresh() has read
\* the record again, the field is null and every other field of the event
\* (calendar, description, location, tags, start, end, reminders, rrule,
\* organizer, attendees, attachments, notes) is what it was before the call.
C28_UnsetChangesOnlyField ==
    (Wrote({"unset"}) /\ pc = "idle") =>
        /\ Get(Reloaded, edit.field) = None
        /\ \A x \in OtherFields \ {edit.field} :
              ParseEventFields(Reloaded, now)[x]
                  = ParseEventFields(edit.before, now)[x]

=============================================================================
